---- MODULE Spec2Model ----
(***************************************************************************)
(* Verification model of the honcho plugin's local reliability layer:      *)
(* configuration resolution, the durable message queue                     *)
(* (message-queue.jsonl), the context cache (context-cache.json) and the   *)
(* hook handlers that use them.  Every hook invocation is its own process; *)
(* the processes share nothing but the files.                              *)
(***************************************************************************)
EXTENDS Integers, Sequences, FiniteSets, TLC

\* ------------------------------------------------------------------ bounds
\* Number of hook invocations (processes) of one behaviour.
MaxProcs == 2
\* Length of the log a sequence of queue operations starts from.
MaxInitLog == 1
\* Number of queue operations called one after the other.
MaxOps == 3
\* Logical time runs from 0 to MaxTime.
MaxTime == 5
\* Number of activity-counter increments of one behaviour.
MaxCount == 3
MaxCalls == 3
\* Length of the texts given to chunkContent, and the largest size limit.
MaxText == 6
MaxSize == 5
\* Ticks of the clock between calls of the identity cache.
MaxAge == 1
\* The largest localContext.maxEntries of config.json.
MaxEntries == 3
\* The context TTL, in ticks of the logical clock (contextRefresh.ttlSeconds).
TTL == 2
\* The message threshold (contextRefresh.messageThreshold), scaled down.
Threshold == 2

Procs == 1..MaxProcs
Cwds == {"A", "B"}
\* "" is the empty prompt (nothing left after trim).
Prompts == {"", "yes", "fix bug"}
Contents == {"yes", "fix bug"}
InstanceIds == {"c1"}
NoInstance == "undefined"

VARIABLES
  env,              \* process.env: HONCHO_API_KEY, HONCHO_SAVE_MESSAGES, HONCHO_ENABLED
  file,             \* ~/.honcho/config.json
  queue,            \* ~/.honcho/message-queue.jsonl, one record per line
  clock,            \* source of the records' timestamps
  claudeInstanceId, \* cache.json: claudeInstanceId
  procs,            \* the hook invocations: position and locals of each
  delivered,        \* remote session: successful uploads per queued prompt
  otherSent,        \* remote session: kind of the last other message or query it received
  ops,              \* queue operations called one after the other, each with the log it found
  result,           \* what the last getQueuedMessages of ops returned
  ctx,              \* ~/.honcho/context-cache.json
  now,              \* Date.now(), in ticks
  got,              \* what the last reads of the context cache returned
  calls,            \* context-cache calls of concurrent invocations: the copy each loaded
  did,              \* the last call of a configuration function: what it was given and made
  saved,            \* per host, the workspace and aiPeer of the last saveConfig under it
  start,            \* a handleSessionStart from its connection on: fetches, sections, output
  files,            \* ~/.honcho: cache.json (ids), git-state.json, claude-context.md
  diffed,           \* the last detectGitChanges: its arguments and the changes returned
  chunker,          \* a chunkContent call: its arguments, locals and return value
  run,              \* a hook invocation whose writes to ~/.honcho can fail
  lastCall          \* the last call of the identity cache or of clearAllCaches

confVars == <<env, file>>
queueVars == <<queue, clock, claudeInstanceId>>
hookVars == <<procs, delivered, otherSent>>
apiVars == <<ops, result>>
ctxVars == <<ctx, now, got>>
raceVars == <<calls>>
cfgVars == <<did, saved>>
fetchVars == <<start>>
libVars == <<files, diffed, chunker, run, lastCall>>
otherVars == <<raceVars, cfgVars, fetchVars, libVars>>
vars == <<env, file, queue, clock, claudeInstanceId, procs, delivered, otherSent,
          ops, result, ctx, now, got, calls, did, saved, start,
          files, diffed, chunker, run, lastCall>>

\* ------------------------------------------------------------ configuration
\* HonchoHost
Hosts == {"cursor", "claude-code"}
\* _detectedHost ?? "cursor": the hooks of this plugin are run by Cursor
getDetectedHost == "cursor"
DEFAULT_WORKSPACE(host) == IF host = "cursor" THEN "cursor" ELSE "claude_code"

\* A working directory is the list of its path segments; basename is the last.
Dirs == {<<"home", "me", "My Project!">>, <<"srv", "api_v2">>}
basename(cwd) == IF Len(cwd) = 0 THEN "" ELSE cwd[Len(cwd)]

\* A session name is a sequence of characters, <<>> the empty string (or an
\* undefined entry: both are falsy).  sessions: Record<string, string>
NoSessions == [d \in Dirs |-> <<>>]

\* hosts?: Record<string, HostConfig>; a block that is not there, and one
\* whose fields are "undefined" or hold a value
NoBlock == [present |-> FALSE, workspace |-> "undefined", aiPeer |-> "undefined"]
HostConfig(workspace, aiPeer) ==
  [present |-> TRUE, workspace |-> workspace, aiPeer |-> aiPeer]
NoHosts == [h \in Hosts |-> NoBlock]

\* process.env: a variable is "unset" (or "" for the names) or holds the string
EnvWith(apiKey, saveMessages, enabled, workspace, aiPeer, claudePeer, peerName) ==
  [apiKey |-> apiKey, saveMessages |-> saveMessages, enabled |-> enabled,
   workspace |-> workspace, aiPeer |-> aiPeer, cursorPeer |-> "unset",
   claudePeer |-> claudePeer, peerName |-> peerName, user |-> ""]
EnvOf(apiKey, saveMessages, enabled) ==
  EnvWith(apiKey, saveMessages, enabled, "unset", "unset", "unset", "")

\* HonchoFileConfig: the parsed content of config.json
EmptyFile ==
  [kind |-> "json", apiKey |-> "", peerName |-> "", workspace |-> "undefined",
   cursorPeer |-> "undefined", claudePeer |-> "undefined", hosts |-> NoHosts,
   sessions |-> NoSessions, saveMessages |-> "undefined", enabled |-> "undefined"]
FileOf(apiKey, saveMessages, enabled) ==
  [EmptyFile EXCEPT !.apiKey = apiKey, !.saveMessages = saveMessages, !.enabled = enabled]
NoFile == [EmptyFile EXCEPT !.kind = "none"]
CorruptFile == [EmptyFile EXCEPT !.kind = "corrupt"]

\* The environments and config files the hooks are run under: a variable is
\* "unset" or holds the string shown, a field is "undefined" or holds the value.
Setups ==
  { [env |-> EnvOf("", "unset", "unset"),   file |-> NoFile],
    [env |-> EnvOf("ke", "unset", "unset"), file |-> NoFile],
    [env |-> EnvOf("ke", "false", "unset"), file |-> NoFile],
    [env |-> EnvOf("ke", "unset", "false"), file |-> CorruptFile],
    [env |-> EnvOf("", "unset", "unset"),   file |-> FileOf("kf", "false", "undefined")],
    [env |-> EnvOf("ke", "false", "unset"), file |-> FileOf("kf", "true", "undefined")],
    [env |-> EnvOf("", "unset", "unset"),   file |-> FileOf("kf", "true", "false")] }

\* loadConfig returning null
NullConfig == [present |-> FALSE, apiKey |-> "", peerName |-> "user",
               workspace |-> "", aiPeer |-> "", sessions |-> NoSessions,
               saveMessages |-> "undefined", enabled |-> "undefined"]

mergeWithEnvVars(config, e) ==
  [config EXCEPT !.apiKey = IF e.apiKey # "" THEN e.apiKey ELSE @,
                 !.workspace = IF e.workspace # "unset" THEN e.workspace ELSE @,
                 !.peerName = IF e.peerName # "" THEN e.peerName ELSE @,
                 !.aiPeer = IF e.aiPeer # "unset" THEN e.aiPeer ELSE @,
                 !.enabled = IF e.enabled = "false" THEN "false" ELSE @]

\* the host-specific fields of resolveConfig, with the host block consulted
\* field by field and the legacy flat field behind each missing field
resolveHostFieldwise(raw, host) ==
  LET hostBlock == raw.hosts[host]
  IN [workspace |-> IF hostBlock.workspace # "undefined" THEN hostBlock.workspace
                    ELSE IF raw.workspace # "undefined" THEN raw.workspace
                    ELSE DEFAULT_WORKSPACE(host),
      aiPeer |-> IF hostBlock.aiPeer # "undefined" THEN hostBlock.aiPeer
                 ELSE IF host = "cursor"
                      THEN (IF raw.cursorPeer # "undefined" THEN raw.cursorPeer ELSE "cursor")
                      ELSE (IF raw.claudePeer # "undefined" THEN raw.claudePeer ELSE "clawd")]

\* the host-specific fields of resolveConfig: const hostBlock = raw.hosts?.[host]
resolveHost(raw, host) ==
  LET hostBlock == raw.hosts[host]
  IN IF hostBlock.present
     THEN [workspace |-> IF hostBlock.workspace # "undefined" THEN hostBlock.workspace
                         ELSE DEFAULT_WORKSPACE(host),
           aiPeer |-> IF hostBlock.aiPeer # "undefined" THEN hostBlock.aiPeer ELSE host]
     ELSE [workspace |-> IF raw.workspace # "undefined" THEN raw.workspace
                         ELSE DEFAULT_WORKSPACE(host),
           aiPeer |-> IF host = "cursor"
                      THEN (IF raw.cursorPeer # "undefined" THEN raw.cursorPeer ELSE "cursor")
                      ELSE (IF raw.claudePeer # "undefined" THEN raw.claudePeer ELSE "clawd")]

resolveConfig(raw, e, host) ==
  LET apiKey == IF e.apiKey # "" THEN e.apiKey ELSE raw.apiKey
      peerName == IF raw.peerName # "" THEN raw.peerName
                  ELSE IF e.peerName # "" THEN e.peerName
                  ELSE IF e.user # "" THEN e.user ELSE "user"
      perHost == resolveHost(raw, host)
  IN IF apiKey = "" THEN NullConfig
     ELSE mergeWithEnvVars([present |-> TRUE, apiKey |-> apiKey, peerName |-> peerName,
                            workspace |-> perHost.workspace, aiPeer |-> perHost.aiPeer,
                            sessions |-> raw.sessions,
                            saveMessages |-> raw.saveMessages,
                            enabled |-> raw.enabled], e)

loadConfigFromEnv(e, host) ==
  IF e.apiKey = "" THEN NullConfig
  ELSE [present |-> TRUE, apiKey |-> e.apiKey,
        peerName |-> IF e.peerName # "" THEN e.peerName
                     ELSE IF e.user # "" THEN e.user ELSE "user",
        workspace |-> IF e.workspace # "unset" THEN e.workspace
                      ELSE DEFAULT_WORKSPACE(host),
        aiPeer |-> IF e.aiPeer # "unset" THEN e.aiPeer
                   ELSE IF e.cursorPeer # "unset" THEN e.cursorPeer
                   ELSE IF e.claudePeer # "unset" THEN e.claudePeer ELSE host,
        sessions |-> NoSessions,
        saveMessages |-> IF e.saveMessages # "false" THEN "true" ELSE "false",
        enabled |-> IF e.enabled # "false" THEN "true" ELSE "false"]

\* loadConfig giving up on a file that does not parse
loadConfigThrowing(f, e, host) ==
  IF f.kind = "json" THEN resolveConfig(f, e, host)
  ELSE IF f.kind = "corrupt" THEN NullConfig
  ELSE loadConfigFromEnv(e, host)

loadConfig(f, e, host) ==
  IF f.kind = "json" THEN resolveConfig(f, e, host) ELSE loadConfigFromEnv(e, host)

isPluginEnabled(f, e) == loadConfig(f, e, getDetectedHost).enabled # "false"

config == loadConfig(file, env, getDetectedHost)

\* saveConfig with existing.hosts replaced by the block of the detected host
saveConfigOneHost(f, cfg, host) ==
  LET existing == IF f.kind = "json" THEN f ELSE EmptyFile
  IN [existing EXCEPT !.apiKey = cfg.apiKey, !.peerName = cfg.peerName,
                      !.sessions = cfg.sessions, !.saveMessages = cfg.saveMessages,
                      !.enabled = cfg.enabled,
                      !.hosts = [NoHosts EXCEPT ![host] = HostConfig(cfg.workspace, cfg.aiPeer)],
                      !.workspace = "undefined", !.cursorPeer = "undefined",
                      !.claudePeer = "undefined"]

\* saveConfig(config) under the detected host: read (a corrupt file starts
\* fresh), merge the shared fields, write the host's block, delete the legacy
\* flat fields, write
saveConfig(f, cfg, host) ==
  LET existing == IF f.kind = "json" THEN f ELSE EmptyFile
  IN [existing EXCEPT !.apiKey = cfg.apiKey, !.peerName = cfg.peerName,
                      !.sessions = cfg.sessions, !.saveMessages = cfg.saveMessages,
                      !.enabled = cfg.enabled,
                      !.hosts[host] = HostConfig(cfg.workspace, cfg.aiPeer),
                      !.workspace = "undefined", !.cursorPeer = "undefined",
                      !.claudePeer = "undefined"]

\* getSessionForPath: config.sessions[cwd] || null, <<>> for null
getSessionForPath(f, e, host, cwd) ==
  LET cfg == loadConfig(f, e, host)
  IN IF cfg.present THEN cfg.sessions[cwd] ELSE <<>>

\* setSessionForPath: the file it leaves
setSessionForPath(f, e, host, cwd, sessionName) ==
  LET cfg == loadConfig(f, e, host)
  IN IF ~cfg.present THEN f
     ELSE saveConfig(f, [cfg EXCEPT !.sessions[cwd] = sessionName], host)

\* The characters of the strings that name users and directories.
Chars(str) ==
  CASE str = "" -> <<>>
    [] str = "user" -> <<"u", "s", "e", "r">>
    [] str = "Jane Doe" -> <<"J", "a", "n", "e", " ", "D", "o", "e">>
    [] str = "bob_1" -> <<"b", "o", "b", "_", "1">>
    [] str = "My Project!" -> <<"M", "y", " ", "P", "r", "o", "j", "e", "c", "t", "!">>
    [] str = "api_v2" -> <<"a", "p", "i", "_", "v", "2">>
    [] str = "pinned" -> <<"p", "i", "n", "n", "e", "d">>

\* String.prototype.toLowerCase, one character
toLowerCase(c) ==
  CASE c = "J" -> "j" [] c = "D" -> "d" [] c = "M" -> "m" [] c = "P" -> "p"
    [] OTHER -> c

\* [a-z0-9-_]
SessionNameChars ==
  {"a", "b", "c", "d", "e", "f", "g", "h", "i", "j", "k", "l", "m", "n", "o", "p",
   "q", "r", "s", "t", "u", "v", "w", "x", "y", "z",
   "0", "1", "2", "3", "4", "5", "6", "7", "8", "9", "-", "_"}

\* sanitizeForSessionName without toLowerCase
sanitizeForSessionNameCased(str) ==
  [i \in DOMAIN str |-> IF str[i] \in SessionNameChars THEN str[i] ELSE "-"]

\* sanitizeForSessionName: s.toLowerCase().replace(/[^a-z0-9-_]/g, "-")
sanitizeForSessionName(str) ==
  [i \in DOMAIN str |->
     IF toLowerCase(str[i]) \in SessionNameChars THEN toLowerCase(str[i]) ELSE "-"]

getSessionName(f, e, host, cwd) ==
  LET configuredSession == getSessionForPath(f, e, host, cwd)
      cfg == loadConfig(f, e, host)
      peerPart == IF cfg.present /\ cfg.peerName # ""
                  THEN sanitizeForSessionName(Chars(cfg.peerName))
                  ELSE Chars("user")
      repoPart == sanitizeForSessionName(Chars(basename(cwd)))
  IN IF configuredSession # <<>> THEN configuredSession
     ELSE peerPart \o <<"-">> \o repoPart

\* no configuration function called yet
NoCall == [op |-> "none", host |-> "", env |-> EnvOf("", "unset", "unset"),
           cwd |-> <<>>, config |-> NullConfig, name |-> <<>>]

\* ------------------------------------------------------------ message queue
\* A line of the log: the fields of a QueuedMessage, and whether the line
\* parses as JSON (every line the program writes does).
QueuedMessage(content, peerId, cwd, timestamp, instanceId) ==
  [content |-> content, peerId |-> peerId, cwd |-> cwd, timestamp |-> timestamp,
   uploaded |-> FALSE, instanceId |-> instanceId, json |-> TRUE]

Parses(line) == line.json

\* getClaudeInstanceId
getClaudeInstanceId(cached) == cached

\* queueMessage: appendFileSync of one line
queueMessage(q, content, peerId, cwd, timestamp, cached) ==
  Append(q, QueuedMessage(content, peerId, cwd, timestamp, getClaudeInstanceId(cached)))

NotUploaded(msg) == ~msg.uploaded

\* getQueuedMessages without its directory filter
getQueuedMessagesAllDirs(q, forCwd) == SelectSeq(q, NotUploaded)

\* getQueuedMessages; forCwd = "" is the call without a directory; a line
\* that does not parse makes JSON.parse throw, and the catch returns []
getQueuedMessages(q, forCwd) ==
  LET messages == SelectSeq(q, NotUploaded)
      InCwd(msg) == msg.cwd = forCwd
  IN IF \E i \in DOMAIN q : ~Parses(q[i]) THEN <<>>
     ELSE IF forCwd # "" THEN SelectSeq(messages, InCwd) ELSE messages

\* clearMessageQueue
clearMessageQueue(q) == <<>>

\* markMessagesUploaded keeping no line, whatever the directory
markRemainingNone(q, forCwd) == <<>>

\* markMessagesUploaded, the lines it keeps (`remaining`) from the log it
\* read: a line that does not parse is not kept
markRemaining(q, forCwd) ==
  LET Keep(line) == Parses(line) /\ line.cwd # forCwd
  IN SelectSeq(q, Keep)

\* markMessagesUploaded run without interruption
markMessagesUploaded(q, forCwd) ==
  IF forCwd = "" THEN clearMessageQueue(q) ELSE markRemaining(q, forCwd)

\* ------------------------------------------------------------ context cache
Undef == -1
\* x || 0
OrZero(x) == IF x = Undef THEN 0 ELSE x
Datas == {"d1", "d2"}
NoContext == [present |-> FALSE, data |-> "", fetchedAt |-> 0]
\* a getter returning null
Null == [present |-> FALSE, data |-> ""]
\* the cache file holding {}
EmptyContextCache == [userContext |-> NoContext, claudeContext |-> NoContext,
                      messageCount |-> Undef, lastRefreshMessageCount |-> Undef]

\* getContextTTL, getMessageRefreshThreshold
getContextTTL == TTL
getMessageRefreshThreshold == Threshold

\* the getter with <= in place of <: an age equal to the TTL is still fresh
getCachedUserContextInclusive(cache, t) ==
  IF cache.userContext.present /\ t - cache.userContext.fetchedAt <= getContextTTL
  THEN [present |-> TRUE, data |-> cache.userContext.data]
  ELSE Null

getCachedUserContext(cache, t) ==
  IF cache.userContext.present /\ t - cache.userContext.fetchedAt < getContextTTL
  THEN [present |-> TRUE, data |-> cache.userContext.data]
  ELSE Null

\* a payload write that saves a new object holding only the payload
setCachedUserContextAlone(cache, data, t) ==
  [EmptyContextCache EXCEPT !.userContext = [present |-> TRUE, data |-> data, fetchedAt |-> t]]

setCachedUserContext(cache, data, t) ==
  [cache EXCEPT !.userContext = [present |-> TRUE, data |-> data, fetchedAt |-> t]]

getCachedClaudeContext(cache, t) ==
  IF cache.claudeContext.present /\ t - cache.claudeContext.fetchedAt < getContextTTL
  THEN [present |-> TRUE, data |-> cache.claudeContext.data]
  ELSE Null

setCachedClaudeContext(cache, data, t) ==
  [cache EXCEPT !.claudeContext = [present |-> TRUE, data |-> data, fetchedAt |-> t]]

\* the staleness test with > in place of >=: an age equal to the TTL is not stale
isContextCacheStaleStrict(cache, t) ==
  IF ~cache.userContext.present THEN TRUE
  ELSE t - cache.userContext.fetchedAt > getContextTTL

isContextCacheStale(cache, t) ==
  IF ~cache.userContext.present THEN TRUE
  ELSE t - cache.userContext.fetchedAt >= getContextTTL

incrementMessageCount(cache) ==
  [cache EXCEPT !.messageCount = OrZero(@) + 1]

\* the refresh test with > in place of >=: a difference equal to the threshold
\* does not force a refresh
shouldRefreshKnowledgeGraphStrict(cache) ==
  LET currentCount == OrZero(cache.messageCount)
      lastRefresh == OrZero(cache.lastRefreshMessageCount)
  IN (currentCount - lastRefresh) > getMessageRefreshThreshold

shouldRefreshKnowledgeGraph(cache) ==
  LET currentCount == OrZero(cache.messageCount)
      lastRefresh == OrZero(cache.lastRefreshMessageCount)
  IN (currentCount - lastRefresh) >= getMessageRefreshThreshold

\* the mark that puts the baseline back to 0
markKnowledgeGraphRefreshedToZero(cache) ==
  [cache EXCEPT !.lastRefreshMessageCount = 0]
markKnowledgeGraphRefreshed(cache) ==
  [cache EXCEPT !.lastRefreshMessageCount = OrZero(cache.messageCount)]

\* the reset that puts the counter back to 0 and leaves the baseline
resetMessageCountAlone(cache) ==
  [cache EXCEPT !.messageCount = 0]

resetMessageCount(cache) ==
  [cache EXCEPT !.messageCount = 0, !.lastRefreshMessageCount = 0]

\* ------------------------------------------------------------ hook handlers
Idle == [kind |-> "none", pc |-> "idle", cwd |-> "", prompt |-> "", ts |-> 0,
         up |-> "none", remote |-> FALSE, queued |-> FALSE, listed |-> <<>>,
         remaining |-> <<>>, exit |-> -1]

\* process.exit(code): the invocation and its locals are gone, the code is kept
Exited(code) == [Idle EXCEPT !.pc = "done", !.exit = code]

\* Invocations take the slots in order.
CanStart(p) ==
  procs[p].pc = "idle" /\ (IF p = 1 THEN TRUE ELSE procs[p - 1].pc # "idle")

\* the handler starting the upload without having queued the prompt
BeforeSubmitEntryUploadFirst(cfg, enabled, prompt) ==
  IF ~cfg.present \/ ~enabled \/ prompt = "" THEN "done"
  ELSE IF cfg.saveMessages # "false" THEN "upload"
  ELSE "context"

\* handleBeforeSubmitPrompt up to the queueing: where the handler goes after
\* it has loaded the configuration and read its input
BeforeSubmitEntry(cfg, enabled, prompt) ==
  IF ~cfg.present \/ ~enabled \/ prompt = "" THEN "done"
  ELSE IF cfg.saveMessages # "false" THEN "queue"
  ELSE "context"

\* the handler from its start to queueMessage(prompt, config.peerName, cwd)
BeforeSubmitStart(p, cwd, prompt) ==
  /\ CanStart(p)
  /\ LET pc == BeforeSubmitEntry(config, isPluginEnabled(file, env), prompt)
         r == [Idle EXCEPT !.kind = "bsp", !.cwd = cwd, !.prompt = prompt]
     IN IF pc = "queue"
        THEN /\ clock' = clock + 1
             /\ queue' = queueMessage(queue, prompt, config.peerName, cwd, clock + 1,
                                      claudeInstanceId)
             /\ procs' = [procs EXCEPT ![p] = [r EXCEPT !.ts = clock + 1,
                                                        !.queued = TRUE, !.pc = "upload"]]
        ELSE /\ UNCHANGED <<queue, clock>>
             /\ procs' = [procs EXCEPT ![p] = IF pc = "done" THEN Exited(0)
                                              ELSE [r EXCEPT !.pc = pc]]
  /\ UNCHANGED <<confVars, claudeInstanceId, delivered, otherSent, apiVars, ctxVars, otherVars>>

\* uploadMessageAsync is started: it runs up to its first remote call
BeforeSubmitUpload(p) ==
  /\ procs[p].kind = "bsp" /\ procs[p].pc = "upload"
  /\ procs' = [procs EXCEPT ![p].up = "flight", ![p].remote = TRUE, ![p].pc = "context"]
  /\ UNCHANGED <<confVars, queueVars, delivered, otherSent, apiVars, ctxVars, otherVars>>

\* the upload promise settles: session.addMessages succeeded, or a call threw
\* (caught where the handler awaits it); a handler that was awaiting it exits
BeforeSubmitUploadSettles(p, ok) ==
  /\ procs[p].kind = "bsp" /\ procs[p].up = "flight"
  /\ procs' = [procs EXCEPT ![p] = IF @.pc = "await" THEN Exited(0)
                                   ELSE [@ EXCEPT !.up = IF ok THEN "ok" ELSE "fail"]]
  /\ delivered' = IF ok THEN [delivered EXCEPT ![procs[p].ts] = @ + 1] ELSE delivered
  /\ UNCHANGED <<confVars, queueVars, otherSent, apiVars, ctxVars, otherVars>>

\* SKIP_CONTEXT_PATTERNS: "yes" is one of the trivial prompts
shouldSkipContextRetrieval(prompt) == prompt = "yes"

\* what session.context() gave: it threw, it returned nothing, or a payload
Fetched == {"throw", "none", "d1"}

\* the context phase: incrementMessageCount, then for a prompt that is not
\* trivial the cache decision and fetchFreshContext, which stores the payload
\* it got; markKnowledgeGraphRefreshed after a forced refresh that did not throw;
\* then await uploadPromise.catch(...) and process.exit(0)
BeforeSubmitContext(p, fetched) ==
  /\ procs[p].kind = "bsp" /\ procs[p].pc = "context"
  /\ LET counted == incrementMessageCount(ctx)
         forceRefresh == shouldRefreshKnowledgeGraph(counted)
         cachedContext == getCachedUserContext(counted, now)
         cacheIsStale == isContextCacheStale(counted, now)
         fetches == /\ ~shouldSkipContextRetrieval(procs[p].prompt)
                    /\ ~(cachedContext.present /\ ~cacheIsStale /\ ~forceRefresh)
         stored == IF fetches /\ fetched \in Datas
                   THEN setCachedUserContext(counted, fetched, now) ELSE counted
     IN /\ ctx' = IF fetches /\ fetched # "throw" /\ forceRefresh
                  THEN markKnowledgeGraphRefreshed(stored) ELSE stored
        /\ procs' = [procs EXCEPT ![p] = IF @.up = "flight"
                                         THEN [@ EXCEPT !.pc = "await", !.remote = TRUE]
                                         ELSE Exited(0)]
  /\ UNCHANGED <<confVars, queueVars, delivered, otherSent, apiVars, now, got, otherVars>>

\* handleSessionEnd up to its try block
SessionEndEntry(cfg, enabled) ==
  IF ~cfg.present \/ ~enabled THEN "done" ELSE "connect"

\* the handler from its start to honcho.session / honcho.peer: a throw there
\* goes to the catch block
SessionEndStart(p, cwd, ok) ==
  /\ CanStart(p)
  /\ LET pc == SessionEndEntry(config, isPluginEnabled(file, env))
         r == [Idle EXCEPT !.kind = "se", !.cwd = cwd, !.remote = TRUE]
     IN procs' = [procs EXCEPT ![p] = IF pc = "done" THEN Exited(0)
                                     ELSE [r EXCEPT !.pc = IF ok THEN "list" ELSE "catch"]]
  /\ UNCHANGED <<confVars, queueVars, delivered, otherSent, apiVars, ctxVars, otherVars>>

\* where step 1 goes once it has the queued messages of its directory
SessionEndAfterList(queuedMessages) ==
  IF Len(queuedMessages) > 0 THEN "send" ELSE "assistant"

\* const queuedMessages = getQueuedMessages(cwd)
SessionEndList(p) ==
  /\ procs[p].kind = "se" /\ procs[p].pc = "list"
  /\ LET queuedMessages == getQueuedMessages(queue, procs[p].cwd)
     IN procs' = [procs EXCEPT ![p].listed = queuedMessages,
                    ![p].pc = SessionEndAfterList(queuedMessages)]
  /\ UNCHANGED <<confVars, queueVars, delivered, otherSent, apiVars, ctxVars, otherVars>>

\* step 1 going on after a failed addMessages (the throw swallowed)
SessionEndAfterSendSwallowed(ok) == "markread"

\* where step 1 goes after await session.addMessages(userMessages)
SessionEndAfterSend(ok) == IF ok THEN "markread" ELSE "catch"

Sends(msgs, t) == Cardinality({i \in DOMAIN msgs : msgs[i].timestamp = t})

SessionEndSend(p, ok) ==
  /\ procs[p].kind = "se" /\ procs[p].pc = "send"
  /\ procs' = [procs EXCEPT ![p].up = IF ok THEN "ok" ELSE "fail",
                              ![p].pc = SessionEndAfterSend(ok)]
  /\ delivered' = IF ok
                  THEN [t \in DOMAIN delivered |-> delivered[t] + Sends(procs[p].listed, t)]
                  ELSE delivered
  /\ UNCHANGED <<confVars, queueVars, otherSent, apiVars, ctxVars, otherVars>>

\* markMessagesUploaded(cwd): readFileSync and the filter
SessionEndMarkRead(p) ==
  /\ procs[p].kind = "se" /\ procs[p].pc = "markread"
  /\ procs' = [procs EXCEPT ![p].remaining = markRemaining(queue, procs[p].cwd),
                 ![p].pc = "markwrite"]
  /\ UNCHANGED <<confVars, queueVars, delivered, otherSent, apiVars, ctxVars, otherVars>>

\* markMessagesUploaded(cwd): writeFileSync of the lines kept
SessionEndMarkWrite(p) ==
  /\ procs[p].kind = "se" /\ procs[p].pc = "markwrite"
  /\ queue' = procs[p].remaining
  /\ procs' = [procs EXCEPT ![p].pc = "assistant"]
  /\ UNCHANGED <<confVars, clock, claudeInstanceId, delivered, otherSent, apiVars, ctxVars, otherVars>>

\* steps 2 to 4: the assistant messages of the transcript (transcript: it has
\* some), the local summary, the [Session ended] marker, process.exit(0); a
\* throw of either addMessages goes to the catch block
SessionEndRest(p, transcript, ok, okMarker) ==
  /\ procs[p].kind = "se" /\ procs[p].pc = "assistant"
  /\ LET sends == config.saveMessages # "false" /\ transcript
     IN IF sends /\ ~ok
        THEN /\ procs' = [procs EXCEPT ![p].pc = "catch"]
             /\ UNCHANGED otherSent
        ELSE /\ procs' = [procs EXCEPT ![p] = IF okMarker THEN Exited(0)
                                              ELSE [@ EXCEPT !.pc = "catch"]]
             /\ otherSent' = IF okMarker THEN "marker"
                             ELSE IF sends THEN "assistant" ELSE otherSent
  /\ UNCHANGED <<confVars, queueVars, delivered, apiVars, ctxVars, otherVars>>

\* the catch block: the error is logged, process.exit(1)
SessionEndCatch(p) ==
  /\ procs[p].kind = "se" /\ procs[p].pc = "catch"
  /\ procs' = [procs EXCEPT ![p] = Exited(1)]
  /\ UNCHANGED <<confVars, queueVars, delivered, otherSent, apiVars, ctxVars, otherVars>>

\* handleStop (handleAfterAgentResponse, handleSubagentStop, handleAfterAgentThought
\* and logToHonchoAsync have the same gate): the last assistant message of the
\* transcript, when it is meaningful, is sent; a throw is caught; process.exit(0)
handleStop(p, meaningful, ok) ==
  /\ CanStart(p)
  /\ LET sends == /\ config.present /\ isPluginEnabled(file, env)
                  /\ config.saveMessages # "false" /\ meaningful
     IN /\ procs' = [procs EXCEPT ![p] = Exited(0)]
        /\ otherSent' = IF sends /\ ok THEN "response" ELSE otherSent
  /\ UNCHANGED <<confVars, queueVars, delivered, apiVars, ctxVars, otherVars>>

\* handleSessionStart: setClaudeInstanceId when the input names the
\* conversation, resetMessageCount, the connection (a throw: exit 1), the
\* fire-and-forget upload of the git changes, and the two contexts it fetched
\* stored in the cache ("none": that fetch failed or returned nothing).  Its
\* setSessionForPath rewrites config.json without changing what loadConfig
\* resolves for this host and environment; CfgSessionStart has that write,
\* StartConnect to StartCatch the five fetches one by one.
handleSessionStart(p, instanceId, gitChanges, ok, sent, user, claude) ==
  /\ CanStart(p)
  /\ LET runs == config.present /\ isPluginEnabled(file, env)
         reset == resetMessageCount(ctx)
         withUser == IF user \in Datas THEN setCachedUserContext(reset, user, now)
                     ELSE reset
         withBoth == IF claude \in Datas THEN setCachedClaudeContext(withUser, claude, now)
                     ELSE withUser
     IN /\ procs' = [procs EXCEPT ![p] = Exited(IF runs /\ ~ok THEN 1 ELSE 0)]
        /\ claudeInstanceId' = IF runs /\ instanceId # NoInstance THEN instanceId
                               ELSE claudeInstanceId
        /\ otherSent' = IF runs /\ ok /\ gitChanges /\ sent THEN "git"
                        ELSE otherSent
        /\ ctx' = IF ~runs THEN ctx ELSE IF ok THEN withBoth ELSE reset
  /\ UNCHANGED <<confVars, queue, clock, delivered, apiVars, now, got, otherVars>>

\* the handlers that only save a message go on when this holds:
\* if (!config || !isPluginEnabled() || config.saveMessages === false) process.exit(0)
\* without the !config test
SavesMessagesUnconfigured(cfg, enabled) == enabled /\ cfg.saveMessages # "false"

SavesMessages(cfg, enabled) == cfg.present /\ enabled /\ cfg.saveMessages # "false"

\* handlePostToolUse: a tool use worth logging is appended to the local
\* context and sent by logToHonchoAsync, whose rejection is caught; exit 0
handlePostToolUse(p, loggable, ok) ==
  /\ CanStart(p)
  /\ LET sends == /\ config.present /\ isPluginEnabled(file, env) /\ loggable
                  /\ config.saveMessages # "false"
     IN /\ procs' = [procs EXCEPT ![p] = Exited(0)]
        /\ otherSent' = IF sends /\ ok THEN "tool" ELSE otherSent
  /\ UNCHANGED <<confVars, queueVars, delivered, apiVars, ctxVars, otherVars>>

\* handlePreCompact: the connection and the five fetches of Promise.allSettled;
\* a throw is caught; both paths end with process.exit(0)
handlePreCompact(p, ok) ==
  /\ CanStart(p)
  /\ LET runs == config.present /\ isPluginEnabled(file, env)
     IN /\ procs' = [procs EXCEPT ![p] = Exited(0)]
        /\ otherSent' = IF runs /\ ok THEN "anchor" ELSE otherSent
  /\ UNCHANGED <<confVars, queueVars, delivered, apiVars, ctxVars, otherVars>>

\* handleSubagentStop: the result of a completed subagent is sent; a throw is
\* caught; process.exit(0)
handleSubagentStop(p, completed, ok) ==
  /\ CanStart(p)
  /\ LET sends == SavesMessages(config, isPluginEnabled(file, env)) /\ completed
     IN /\ procs' = [procs EXCEPT ![p] = Exited(0)]
        /\ otherSent' = IF sends /\ ok THEN "subagent" ELSE otherSent
  /\ UNCHANGED <<confVars, queueVars, delivered, apiVars, ctxVars, otherVars>>

\* handleAfterAgentThought: substantial reasoning is sent; a throw is caught;
\* process.exit(0)
handleAfterAgentThought(p, substantial, ok) ==
  /\ CanStart(p)
  /\ LET sends == SavesMessages(config, isPluginEnabled(file, env)) /\ substantial
     IN /\ procs' = [procs EXCEPT ![p] = Exited(0)]
        /\ otherSent' = IF sends /\ ok THEN "thought" ELSE otherSent
  /\ UNCHANGED <<confVars, queueVars, delivered, apiVars, ctxVars, otherVars>>

\* handleAfterAgentResponse: a meaningful response is sent; a throw is caught;
\* process.exit(0)
handleAfterAgentResponse(p, meaningful, ok) ==
  /\ CanStart(p)
  /\ LET sends == SavesMessages(config, isPluginEnabled(file, env)) /\ meaningful
     IN /\ procs' = [procs EXCEPT ![p] = Exited(0)]
        /\ otherSent' = IF sends /\ ok THEN "response" ELSE otherSent
  /\ UNCHANGED <<confVars, queueVars, delivered, apiVars, ctxVars, otherVars>>

\* ------------------------------------------- context cache, one call at a time
NoReads == [called |-> FALSE, forceRefresh |-> FALSE, user |-> Null, claude |-> Null,
            stale |-> FALSE, useCached |-> FALSE]

\* time passes
Tick ==
  /\ now < MaxTime
  /\ now' = now + 1
  /\ got' = NoReads
  /\ UNCHANGED <<confVars, queueVars, hookVars, apiVars, ctx, otherVars>>

CtxSetUser(data) ==
  /\ ctx' = setCachedUserContext(ctx, data, now)
  /\ got' = NoReads
  /\ UNCHANGED <<confVars, queueVars, hookVars, apiVars, now, otherVars>>

CtxSetClaude(data) ==
  /\ ctx' = setCachedClaudeContext(ctx, data, now)
  /\ got' = NoReads
  /\ UNCHANGED <<confVars, queueVars, hookVars, apiVars, now, otherVars>>

CtxIncrement ==
  /\ OrZero(ctx.messageCount) < MaxCount
  /\ ctx' = incrementMessageCount(ctx)
  /\ got' = NoReads
  /\ UNCHANGED <<confVars, queueVars, hookVars, apiVars, now, otherVars>>

CtxMarkRefreshed ==
  /\ ctx' = markKnowledgeGraphRefreshed(ctx)
  /\ got' = NoReads
  /\ UNCHANGED <<confVars, queueVars, hookVars, apiVars, now, otherVars>>

CtxReset ==
  /\ ctx' = resetMessageCount(ctx)
  /\ got' = NoReads
  /\ UNCHANGED <<confVars, queueVars, hookVars, apiVars, now, otherVars>>

\* the reads of the cache, as handleBeforeSubmitPrompt makes them one after
\* the other (and the getter of the other context), and its decision to use
\* the cached context: cachedContext && !cacheIsStale && !forceRefresh
CtxRead ==
  /\ ~got.called
  /\ LET forceRefresh == shouldRefreshKnowledgeGraph(ctx)
         cachedContext == getCachedUserContext(ctx, now)
         cacheIsStale == isContextCacheStale(ctx, now)
     IN got' = [called |-> TRUE,
                forceRefresh |-> forceRefresh,
                user |-> cachedContext,
                claude |-> getCachedClaudeContext(ctx, now),
                stale |-> cacheIsStale,
                useCached |-> cachedContext.present /\ ~cacheIsStale /\ ~forceRefresh]
  /\ UNCHANGED <<confVars, queueVars, hookVars, apiVars, ctx, now, otherVars>>

\* ------------------------------------------- the other files of ~/.honcho
\* cache.json: the one workspace slot, the peers by name, the sessions by
\* working directory.  "" is the id of a key that is not there (x || null).
WorkspaceNames == {"cursor", "team"}
PeerNames == {"user", "cursor"}
Ids == {"id1", "id2"}
NoWorkspace == [name |-> "", id |-> ""]
NoSession == [name |-> "", id |-> "", updatedAt |-> 0]
\* the file holding {}
EmptyIdCache == [workspace |-> NoWorkspace,
                 peers |-> [n \in PeerNames |-> ""],
                 sessions |-> [c \in Cwds |-> NoSession]]

\* GitState, and null for a directory git-state.json has no entry of
Branches == {"main", "dev"}
Commits == {"abc1234", "def5678"}
NoGitState == [present |-> FALSE, branch |-> "", commit |-> "", isDirty |-> FALSE]
GitState(branch, commit, isDirty) ==
  [present |-> TRUE, branch |-> branch, commit |-> commit, isDirty |-> isDirty]
GitStates == {GitState(b, c, d) : b \in Branches, c \in Commits, d \in BOOLEAN}
\* the file holding {}
EmptyGitStateCache == [c \in Cwds |-> NoGitState]

\* cache.json, git-state.json and claude-context.md (its entries) as created
NoFiles == [ids |-> EmptyIdCache, git |-> EmptyGitStateCache, work |-> <<>>]
NoDiff == [called |-> FALSE, previous |-> NoGitState, current |-> NoGitState,
           changes |-> <<>>]
NoChunker == [pc |-> "idle", content |-> <<>>, maxSize |-> 0, remaining |-> <<>>,
              chunks |-> <<>>, cuts |-> {}, out |-> <<>>]
NoRun == [handler |-> "none", pc |-> "idle", at |-> 0, fresh |-> FALSE, cwd |-> "",
          failed |-> "none", uncaught |-> FALSE, exit |-> -1]
NoLast == [op |-> "none", key |-> "", ret |-> ""]
LibIdle ==
  files = NoFiles /\ diffed = NoDiff /\ chunker = NoChunker /\ run = NoRun /\ lastCall = NoLast

\* ------------------------------- the parallel fetches of handleSessionStart
\* The five requests of Promise.allSettled and what each can settle to: a
\* context request is rejected, or fulfilled with null, with an object that has
\* no representation and no peer card ("bare"), or with one that has ("d1");
\* summaries and the two chats are rejected, or fulfilled without content, or
\* with content.
Fetches == {"userContext", "cursorContext", "summaries", "userChat", "cursorChat"}
Settled ==
  [userContext : {"rejected", "null", "bare", "d1"},
   cursorContext : {"rejected", "null", "bare", "d1"},
   summaries : {"rejected", "empty", "text"},
   userChat : {"rejected", "empty", "text"},
   cursorChat : {"rejected", "empty", "text"}]
NotSettled == [f \in Fetches |-> "pending"]

NoStart == [pc |-> "idle", results |-> NotSettled, before |-> EmptyContextCache,
            sections |-> {}, output |-> FALSE, exit |-> -1]

\* Promise.all in place of Promise.allSettled: one rejection rejects the await
AfterFetchesAll(results) ==
  IF \E f \in Fetches : results[f] = "rejected" THEN "catch" ELSE "build"

\* await Promise.allSettled([...]) never rejects
AfterFetches(results) == "build"

\* contextParts: the header and one section per result that has content
contextParts(results) ==
  {"header"}
  \cup (IF results.userContext = "d1" THEN {"userContext"} ELSE {})
  \cup (IF results.cursorContext = "d1" THEN {"cursorContext"} ELSE {})
  \cup (IF results.summaries = "text" THEN {"summaries"} ELSE {})
  \cup (IF results.userChat = "text" THEN {"userChat"} ELSE {})
  \cup (IF results.cursorChat = "text" THEN {"cursorChat"} ELSE {})

\* the cache after the sections are built: setCachedUserContext and
\* setCachedClaudeContext for the context results fulfilled with a value
cacheAfterFetches(cache, results, t) ==
  LET withUser == IF results.userContext \in {"bare", "d1"}
                  THEN setCachedUserContext(cache, results.userContext, t) ELSE cache
  IN IF results.cursorContext \in {"bare", "d1"}
     THEN setCachedClaudeContext(withUser, results.cursorContext, t) ELSE withUser

\* the handler up to the connection: resetMessageCount, then honcho.session
\* and the two honcho.peer; a throw goes to the catch block
StartConnect(ok) ==
  /\ start.pc = "idle"
  /\ ctx' = resetMessageCount(ctx)
  /\ start' = [start EXCEPT !.pc = IF ok THEN "fetch" ELSE "catch",
                            !.before = resetMessageCount(ctx)]
  /\ UNCHANGED <<confVars, queueVars, hookVars, apiVars, now, got, raceVars, cfgVars, libVars>>

\* the five requests settle
StartSettle(results) ==
  /\ start.pc = "fetch"
  /\ start' = [start EXCEPT !.pc = AfterFetches(results), !.results = results]
  /\ UNCHANGED <<confVars, queueVars, hookVars, apiVars, ctxVars, raceVars, cfgVars, libVars>>

\* the sections are built, the contexts cached, the JSON printed; process.exit(0)
StartOutput ==
  /\ start.pc = "build"
  /\ ctx' = cacheAfterFetches(ctx, start.results, now)
  /\ start' = [start EXCEPT !.pc = "done", !.sections = contextParts(start.results),
                            !.output = TRUE, !.exit = 0]
  /\ UNCHANGED <<confVars, queueVars, hookVars, apiVars, now, got, raceVars, cfgVars, libVars>>

\* the catch block: process.exit(1)
StartCatch ==
  /\ start.pc = "catch"
  /\ start' = [start EXCEPT !.pc = "done", !.exit = 1]
  /\ UNCHANGED <<confVars, queueVars, hookVars, apiVars, ctxVars, raceVars, cfgVars, libVars>>

\* the cache the handler finds: empty, or holding contexts of an earlier session
StartCaches ==
  { [EmptyContextCache EXCEPT !.userContext = u, !.claudeContext = c, !.messageCount = n] :
      u \in {NoContext, [present |-> TRUE, data |-> "d2", fetchedAt |-> 0]},
      c \in {NoContext, [present |-> TRUE, data |-> "d2", fetchedAt |-> 0]},
      n \in {Undef, Threshold} }

InitFetch ==
  /\ env = EnvOf("ke", "unset", "unset") /\ file = NoFile
  /\ queue = <<>> /\ clock = 0 /\ claudeInstanceId = NoInstance
  /\ procs = [p \in Procs |-> Idle]
  /\ delivered = [t \in 0..(MaxProcs + 1) |-> 0]
  /\ otherSent = "none"
  /\ ops = <<>> /\ result = <<>>
  /\ ctx \in StartCaches /\ now = 1 /\ got = NoReads
  /\ calls = <<>> /\ did = NoCall /\ saved = NoHosts /\ start = NoStart
  /\ LibIdle

NextFetch ==
  \/ \E ok \in BOOLEAN : StartConnect(ok)
  \/ \E results \in Settled : StartSettle(results)
  \/ StartOutput
  \/ StartCatch

SpecFetch == InitFetch /\ [][NextFetch]_vars

\* the variables of the other specifications, at rest
OtherIdle ==
  calls = <<>> /\ did = NoCall /\ saved = NoHosts /\ start = NoStart /\ LibIdle

InitCtx ==
  /\ env = EnvOf("ke", "unset", "unset") /\ file = NoFile
  /\ queue = <<>> /\ clock = 0 /\ claudeInstanceId = NoInstance
  /\ procs = [p \in Procs |-> Idle]
  /\ delivered = [t \in 0..(MaxProcs + 1) |-> 0]
  /\ otherSent = "none"
  /\ ops = <<>> /\ result = <<>>
  /\ ctx = EmptyContextCache /\ now = 0 /\ got = NoReads
  /\ OtherIdle

NextCtx ==
  \/ Tick
  \/ \E data \in Datas : CtxSetUser(data)
  \/ \E data \in Datas : CtxSetClaude(data)
  \/ CtxIncrement
  \/ CtxMarkRefreshed
  \/ CtxReset
  \/ CtxRead

SpecCtx == InitCtx /\ [][NextCtx]_vars

\* ------------------------------------------------------------ specification
\* The log the hooks find: empty, or holding the prompt of an earlier
\* handleBeforeSubmitPrompt in "A" whose upload failed.
Leftover == QueuedMessage("fix bug", "user", "A", 1, NoInstance)
StartLogs == {<<>>, <<Leftover>>}

Init ==
  /\ \E s \in Setups : env = s.env /\ file = s.file
  /\ queue \in StartLogs /\ clock = Len(queue) /\ claudeInstanceId = NoInstance
  /\ procs = [p \in Procs |-> Idle]
  /\ delivered = [t \in 0..(MaxProcs + 1) |-> 0]
  /\ otherSent = "none"
  /\ ops = <<>> /\ result = <<>>
  /\ ctx = EmptyContextCache /\ now = 0 /\ got = NoReads
  /\ OtherIdle

Next ==
  \/ \E p \in Procs, cwd \in Cwds, prompt \in Prompts : BeforeSubmitStart(p, cwd, prompt)
  \/ \E p \in Procs : BeforeSubmitUpload(p)
  \/ \E p \in Procs, ok \in BOOLEAN : BeforeSubmitUploadSettles(p, ok)
  \/ \E p \in Procs, fetched \in Fetched : BeforeSubmitContext(p, fetched)
  \/ \E p \in Procs, cwd \in Cwds, ok \in BOOLEAN : SessionEndStart(p, cwd, ok)
  \/ \E p \in Procs : SessionEndList(p)
  \/ \E p \in Procs, ok \in BOOLEAN : SessionEndSend(p, ok)
  \/ \E p \in Procs : SessionEndMarkRead(p)
  \/ \E p \in Procs : SessionEndMarkWrite(p)
  \/ \E p \in Procs, transcript \in BOOLEAN, ok \in BOOLEAN, okMarker \in BOOLEAN :
        SessionEndRest(p, transcript, ok, okMarker)
  \/ \E p \in Procs : SessionEndCatch(p)
  \/ \E p \in Procs, meaningful \in BOOLEAN, ok \in BOOLEAN : handleStop(p, meaningful, ok)
  \/ \E p \in Procs, i \in InstanceIds \cup {NoInstance}, g \in BOOLEAN, ok \in BOOLEAN,
        sent \in BOOLEAN, user \in {"none", "d1"}, claude \in {"none", "d1"} :
        handleSessionStart(p, i, g, ok, sent, user, claude)

Spec == Init /\ [][Next]_vars

\* ------------------------------------------------- every hook, one invocation
\* One invocation of any of the nine hook handlers, under each of the setups.
FirstProc == {p \in Procs : \A q \in Procs : p <= q}

NextHooks ==
  \E p \in FirstProc :
    \/ \E cwd \in Cwds, prompt \in Prompts : BeforeSubmitStart(p, cwd, prompt)
    \/ BeforeSubmitUpload(p)
    \/ \E ok \in BOOLEAN : BeforeSubmitUploadSettles(p, ok)
    \/ \E fetched \in Fetched : BeforeSubmitContext(p, fetched)
    \/ \E cwd \in Cwds, ok \in BOOLEAN : SessionEndStart(p, cwd, ok)
    \/ SessionEndList(p)
    \/ \E ok \in BOOLEAN : SessionEndSend(p, ok)
    \/ SessionEndMarkRead(p)
    \/ SessionEndMarkWrite(p)
    \/ \E transcript \in BOOLEAN, ok \in BOOLEAN, okMarker \in BOOLEAN :
          SessionEndRest(p, transcript, ok, okMarker)
    \/ SessionEndCatch(p)
    \/ \E meaningful \in BOOLEAN, ok \in BOOLEAN : handleStop(p, meaningful, ok)
    \/ \E i \in InstanceIds \cup {NoInstance}, g \in BOOLEAN, ok \in BOOLEAN,
          sent \in BOOLEAN, user \in {"none", "d1"}, claude \in {"none", "d1"} :
          handleSessionStart(p, i, g, ok, sent, user, claude)
    \/ \E loggable \in BOOLEAN, ok \in BOOLEAN : handlePostToolUse(p, loggable, ok)
    \/ \E ok \in BOOLEAN : handlePreCompact(p, ok)
    \/ \E completed \in BOOLEAN, ok \in BOOLEAN : handleSubagentStop(p, completed, ok)
    \/ \E substantial \in BOOLEAN, ok \in BOOLEAN : handleAfterAgentThought(p, substantial, ok)
    \/ \E meaningful \in BOOLEAN, ok \in BOOLEAN : handleAfterAgentResponse(p, meaningful, ok)

SpecHooks == Init /\ [][NextHooks]_vars

\* --------------------------------------- the queue operations, one at a time
\* Any log of at most MaxInitLog lines written by the program (a QueuedMessage
\* line may say uploaded: true).
LogLines(n) ==
  [content : Contents, peerId : {"user"}, cwd : Cwds, timestamp : {n},
   uploaded : BOOLEAN, instanceId : {NoInstance}, json : {TRUE}]
RECURSIVE LogsOfLen(_)
LogsOfLen(n) ==
  IF n = 0 THEN {<<>>}
  ELSE {Append(q, l) : q \in LogsOfLen(n - 1), l \in LogLines(n)}
InitLogs == UNION {LogsOfLen(n) : n \in 0..MaxInitLog}

Op(name, content, cwd) == [op |-> name, content |-> content, cwd |-> cwd, pre |-> queue]

\* queueMessage(content, peerId, cwd)
ApiEnqueue(content, cwd) ==
  /\ Len(ops) < MaxOps
  /\ queue' = queueMessage(queue, content, "user", cwd, clock + 1, claudeInstanceId)
  /\ clock' = clock + 1
  /\ ops' = Append(ops, Op("enqueue", content, cwd))
  /\ UNCHANGED <<confVars, claudeInstanceId, hookVars, result, ctxVars, otherVars>>

\* getQueuedMessages(forCwd), getQueuedMessages()
ApiListPending(forCwd) ==
  /\ Len(ops) < MaxOps
  /\ result' = getQueuedMessages(queue, forCwd)
  /\ ops' = Append(ops, Op("list", "", forCwd))
  /\ UNCHANGED <<confVars, queueVars, hookVars, ctxVars, otherVars>>

\* markMessagesUploaded(forCwd), markMessagesUploaded()
ApiMarkUploaded(forCwd) ==
  /\ Len(ops) < MaxOps
  /\ queue' = markMessagesUploaded(queue, forCwd)
  /\ ops' = Append(ops, Op("mark", "", forCwd))
  /\ UNCHANGED <<confVars, clock, claudeInstanceId, hookVars, result, ctxVars, otherVars>>

InitQ ==
  /\ env = EnvOf("ke", "unset", "unset") /\ file = NoFile
  /\ queue \in InitLogs /\ clock = Len(queue)
  /\ claudeInstanceId \in {NoInstance} \cup InstanceIds
  /\ procs = [p \in Procs |-> Idle]
  /\ delivered = [t \in 0..(MaxProcs + 1) |-> 0]
  /\ otherSent = "none"
  /\ ops = <<>> /\ result = <<>>
  /\ ctx = EmptyContextCache /\ now = 0 /\ got = NoReads
  /\ OtherIdle

NextQ ==
  \/ \E content \in Contents, cwd \in Cwds : ApiEnqueue(content, cwd)
  \/ \E forCwd \in Cwds \cup {""} : ApiListPending(forCwd)
  \/ \E forCwd \in Cwds \cup {""} : ApiMarkUploaded(forCwd)

SpecQ == InitQ /\ [][NextQ]_vars

\* ------------------------------- configuration shared by the two hosts
\* The invocations of the two surfaces, one after the other, each a process
\* with its own environment and detected host, on one config.json.
CfgEnvs ==
  { EnvOf("", "unset", "unset"),
    EnvOf("ke", "unset", "unset"),
    EnvWith("ke", "unset", "unset", "we", "pe", "unset", ""),
    EnvWith("ke", "unset", "unset", "unset", "unset", "qe", ""),
    EnvWith("", "unset", "unset", "we", "unset", "unset", ""),
    EnvWith("ke", "unset", "unset", "unset", "unset", "unset", "Jane Doe") }

CfgBlocks ==
  {NoBlock} \cup {HostConfig(w, a) : w \in {"undefined", "wh"}, a \in {"undefined", "ph"}}

\* the files the invocations find: none, one that does not parse, files
\* written by hand or by an older version (legacy flat fields, host blocks
\* with or without their fields), with and without a credential
CfgFiles ==
  {NoFile, CorruptFile}
  \cup { [EmptyFile EXCEPT !.apiKey = k, !.workspace = w, !.cursorPeer = c,
                           !.claudePeer = q, !.hosts = [h \in Hosts |-> b[h]]] :
          k \in {"kf"}, w \in {"undefined", "wl"}, c \in {"undefined", "pl"},
          q \in {"undefined", "ql"}, b \in [Hosts -> CfgBlocks] }
  \cup { [EmptyFile EXCEPT !.apiKey = k, !.peerName = n, !.sessions = ss] :
          k \in {"", "kf"}, n \in {"", "bob_1"},
          ss \in {NoSessions,
                  [NoSessions EXCEPT ![<<"srv", "api_v2">>] = Chars("pinned")]} }

\* loadConfig(host)
CfgLoad(host, e) ==
  /\ did' = [NoCall EXCEPT !.op = "load", !.host = host, !.env = e,
                           !.config = loadConfig(file, e, host)]
  /\ UNCHANGED <<file, env, saved, queueVars, hookVars, apiVars, ctxVars, raceVars,
                 fetchVars, libVars>>

\* getSessionName(cwd)
CfgGetSessionName(host, e, cwd) ==
  /\ did' = [NoCall EXCEPT !.op = "name", !.host = host, !.env = e, !.cwd = cwd,
                           !.config = loadConfig(file, e, host),
                           !.name = getSessionName(file, e, host, cwd)]
  /\ UNCHANGED <<file, env, saved, queueVars, hookVars, apiVars, ctxVars, raceVars,
                 fetchVars, libVars>>

\* handleSessionStart under the host: sessionName = getSessionName(cwd);
\* if (!getSessionForPath(cwd)) setSessionForPath(cwd, sessionName)
CfgSessionStart(host, e, cwd) ==
  LET cfg == loadConfig(file, e, host)
      sessionName == getSessionName(file, e, host, cwd)
  IN /\ cfg.present /\ cfg.enabled # "false"
     /\ getSessionForPath(file, e, host, cwd) = <<>>
     /\ file' = setSessionForPath(file, e, host, cwd, sessionName)
     /\ did' = [NoCall EXCEPT !.op = "save", !.host = host, !.cwd = cwd,
                              !.config = [cfg EXCEPT !.sessions[cwd] = sessionName],
                              !.name = sessionName]
     /\ saved' = [saved EXCEPT ![host] = HostConfig(cfg.workspace, cfg.aiPeer)]
     /\ UNCHANGED <<env, queueVars, hookVars, apiVars, ctxVars, raceVars, fetchVars, libVars>>

\* setPluginEnabled(enabled) under the host
CfgSetPluginEnabled(host, e, enabled) ==
  LET cfg == loadConfig(file, e, host)
  IN /\ cfg.present
     /\ file' = saveConfig(file, [cfg EXCEPT !.enabled = enabled], host)
     /\ did' = [NoCall EXCEPT !.op = "save", !.host = host,
                              !.config = [cfg EXCEPT !.enabled = enabled]]
     /\ saved' = [saved EXCEPT ![host] = HostConfig(cfg.workspace, cfg.aiPeer)]
     /\ UNCHANGED <<env, queueVars, hookVars, apiVars, ctxVars, raceVars, fetchVars, libVars>>

InitCfg ==
  /\ env = EnvOf("", "unset", "unset") /\ file \in CfgFiles
  /\ queue = <<>> /\ clock = 0 /\ claudeInstanceId = NoInstance
  /\ procs = [p \in Procs |-> Idle]
  /\ delivered = [t \in 0..(MaxProcs + 1) |-> 0]
  /\ otherSent = "none"
  /\ ops = <<>> /\ result = <<>>
  /\ ctx = EmptyContextCache /\ now = 0 /\ got = NoReads
  /\ calls = <<>> /\ did = NoCall /\ saved = NoHosts /\ start = NoStart
  /\ LibIdle

\* the reads: loadConfig and getSessionName on any of the files
NextCfg ==
  \/ \E host \in Hosts, e \in CfgEnvs : CfgLoad(host, e)
  \/ \E host \in Hosts, e \in CfgEnvs, cwd \in Dirs : CfgGetSessionName(host, e, cwd)

SpecCfg == InitCfg /\ [][NextCfg]_vars

\* the writes: the invocations that call saveConfig, one after the other
NextSave ==
  \/ \E host \in Hosts, e \in CfgEnvs, cwd \in Dirs : CfgSessionStart(host, e, cwd)
  \/ \E host \in Hosts, e \in CfgEnvs, enabled \in {"true", "false"} :
        CfgSetPluginEnabled(host, e, enabled)

SpecSave == InitCfg /\ [][NextSave]_vars

\* ------------------------ the context cache under concurrent invocations
\* Every operation of the cache is loadContextCache, a change of the loaded
\* object, saveContextCache; the invocations are separate processes, so the
\* load and the save of one call are two steps and other calls run in between.
\* calls is the list of the calls started so far, each with the copy it loaded.
CacheOps == {"increment", "setUser", "setClaude", "markRefreshed", "reset"}

\* what the call saves, from the copy it loaded
CacheOp(op, cache, t) ==
  CASE op = "increment" -> incrementMessageCount(cache)
    [] op = "setUser" -> setCachedUserContext(cache, "d1", t)
    [] op = "setClaude" -> setCachedClaudeContext(cache, "d1", t)
    [] op = "markRefreshed" -> markKnowledgeGraphRefreshed(cache)
    [] op = "reset" -> resetMessageCount(cache)

\* const cache = loadContextCache()
CallLoad(op) ==
  /\ Len(calls) < MaxCalls
  /\ calls' = Append(calls, [op |-> op, pc |-> "loaded", cache |-> ctx, ret |-> Undef])
  /\ UNCHANGED <<confVars, queueVars, hookVars, apiVars, ctxVars, cfgVars, fetchVars, libVars>>

\* the change and saveContextCache(cache); incrementMessageCount returns
\* cache.messageCount
CallSave(i) ==
  /\ i \in DOMAIN calls
  /\ calls[i].pc = "loaded"
  /\ LET cache == CacheOp(calls[i].op, calls[i].cache, now)
     IN /\ ctx' = cache
        /\ calls' = [calls EXCEPT ![i].pc = "saved",
                                  ![i].ret = IF calls[i].op = "increment"
                                             THEN cache.messageCount ELSE Undef]
  /\ UNCHANGED <<confVars, queueVars, hookVars, apiVars, now, got, cfgVars, fetchVars, libVars>>

InitRace ==
  /\ env = EnvOf("ke", "unset", "unset") /\ file = NoFile
  /\ queue = <<>> /\ clock = 0 /\ claudeInstanceId = NoInstance
  /\ procs = [p \in Procs |-> Idle]
  /\ delivered = [t \in 0..(MaxProcs + 1) |-> 0]
  /\ otherSent = "none"
  /\ ops = <<>> /\ result = <<>>
  /\ ctx = EmptyContextCache /\ now = 0 /\ got = NoReads
  /\ calls = <<>> /\ did = NoCall /\ saved = NoHosts /\ start = NoStart
  /\ LibIdle

NextRace ==
  \/ \E op \in CacheOps : CallLoad(op)
  \/ \E i \in 1..MaxCalls : CallSave(i)

SpecRace == InitRace /\ [][NextRace]_vars

\* ----------------------------------------------------- git state between runs
\* Every variable of the specifications above, at rest.
AtRest ==
  /\ env = EnvOf("ke", "unset", "unset") /\ file = NoFile
  /\ queue = <<>> /\ clock = 0 /\ claudeInstanceId = NoInstance
  /\ procs = [p \in Procs |-> Idle]
  /\ delivered = [t \in 0..(MaxProcs + 1) |-> 0]
  /\ otherSent = "none"
  /\ ops = <<>> /\ result = <<>>
  /\ ctx = EmptyContextCache /\ now = 0 /\ got = NoReads
  /\ calls = <<>> /\ did = NoCall /\ saved = NoHosts /\ start = NoStart

\* cache[cwd] || null
getCachedGitState(cache, cwd) == cache[cwd]
\* cache[cwd] = state
setCachedGitState(cache, cwd, state) == [cache EXCEPT ![cwd] = state]

\* A GitStateChange; from and to are "" where the code leaves them out.
GitStateChange(type, from, to) == [type |-> type, from |-> from, to |-> to]

\* the first change is pushed and the comparisons are made all the same, the
\* absent previous state comparing as one without branch and commit
detectGitChangesNoReturn(previous, current) ==
  (IF ~previous.present THEN <<GitStateChange("initial", "", "")>> ELSE <<>>)
  \o (IF previous.branch # current.branch
      THEN <<GitStateChange("branch_switch", previous.branch, current.branch)>> ELSE <<>>)
  \o (IF previous.commit # current.commit
      THEN <<GitStateChange("new_commits", previous.commit, current.commit)>> ELSE <<>>)
  \o (IF ~previous.isDirty /\ current.isDirty
      THEN <<GitStateChange("files_changed", "", "")>> ELSE <<>>)

\* files_changed on every change of isDirty
detectGitChangesEitherWay(previous, current) ==
  IF ~previous.present THEN <<GitStateChange("initial", "", "")>>
  ELSE (IF previous.branch # current.branch
        THEN <<GitStateChange("branch_switch", previous.branch, current.branch)>> ELSE <<>>)
    \o (IF previous.commit # current.commit
        THEN <<GitStateChange("new_commits", previous.commit, current.commit)>> ELSE <<>>)
    \o (IF previous.isDirty # current.isDirty
        THEN <<GitStateChange("files_changed", "", "")>> ELSE <<>>)

detectGitChanges(previous, current) ==
  IF ~previous.present THEN <<GitStateChange("initial", "", "")>>
  ELSE (IF previous.branch # current.branch
        THEN <<GitStateChange("branch_switch", previous.branch, current.branch)>> ELSE <<>>)
    \o (IF previous.commit # current.commit
        THEN <<GitStateChange("new_commits", previous.commit, current.commit)>> ELSE <<>>)
    \o (IF ~previous.isDirty /\ current.isDirty
        THEN <<GitStateChange("files_changed", "", "")>> ELSE <<>>)

\* handleSessionStart's git step in a repository: the cached state of the
\* directory is read, the captured one compared with it and then cached
GitCapture(cwd, currentGitState) ==
  /\ LET previousGitState == getCachedGitState(files.git, cwd)
     IN diffed' = [called |-> TRUE, previous |-> previousGitState,
                   current |-> currentGitState,
                   changes |-> detectGitChanges(previousGitState, currentGitState)]
  /\ files' = [files EXCEPT !.git = setCachedGitState(files.git, cwd, currentGitState)]
  /\ UNCHANGED <<confVars, queueVars, hookVars, apiVars, ctxVars, raceVars, cfgVars,
                 fetchVars, chunker, run, lastCall>>

\* the same outside a repository, after an invocation that was in one:
\* captureGitState returns null, nothing is compared or cached
GitCaptureNone(cwd) ==
  /\ diffed # NoDiff
  /\ diffed' = NoDiff
  /\ UNCHANGED <<confVars, queueVars, hookVars, apiVars, ctxVars, raceVars, cfgVars,
                 fetchVars, files, chunker, run, lastCall>>

InitGit == AtRest /\ LibIdle

NextGit ==
  \/ \E cwd \in Cwds, currentGitState \in GitStates : GitCapture(cwd, currentGitState)
  \/ \E cwd \in Cwds : GitCaptureNone(cwd)

SpecGit == InitGit /\ [][NextGit]_vars

\* ------------------------------------------------------------ message chunking
\* A text is the sequence of its characters; "\n" and " " are the whitespace
\* of the texts here.
Chs == {"a", "b", " ", "\n"}
Whitespace == {" ", "\n"}
Texts == UNION {[1..n -> Chs] : n \in 0..MaxText}

\* s.lastIndexOf(ch): the last index in the whole string, whatever fromIndex
lastIndexOfAnywhere(s, ch, fromIndex) ==
  LET at == {i \in 0..(Len(s) - 1) : s[i + 1] = ch}
  IN IF at = {} THEN -1 ELSE CHOOSE i \in at : \A j \in at : j <= i

\* s.lastIndexOf(ch, fromIndex), 0-based: the last index <= fromIndex, or -1
lastIndexOf(s, ch, fromIndex) ==
  LET at == {i \in 0..(Len(s) - 1) : i <= fromIndex /\ s[i + 1] = ch}
  IN IF at = {} THEN -1 ELSE CHOOSE i \in at : \A j \in at : j <= i

\* the remainder starts one character after the cut
sliceFromNext(s, from) == SubSeq(s, from + 2, Len(s))

\* s.slice(from), s.slice(0, to), 0-based
sliceFrom(s, from) == SubSeq(s, from + 1, Len(s))
sliceTo(s, to) == SubSeq(s, 1, to)

\* s.trimStart()
RECURSIVE trimStart(_)
trimStart(s) ==
  IF s # <<>> /\ s[1] \in Whitespace THEN trimStart(Tail(s)) ELSE s

\* the boundary test with a half of maxSize in place of a quarter
NoGoodBoundaryHalf(splitIndex, maxSize) ==
  splitIndex <= 0 \/ 2 * splitIndex < maxSize

\* splitIndex <= 0 || splitIndex < maxSize * 0.25
NoGoodBoundary(splitIndex, maxSize) == splitIndex <= 0 \/ 4 * splitIndex < maxSize

\* the hard split leaves the cut where it is
hardSplitNone(maxSize) == 0

\* splitIndex = maxSize
hardSplit(maxSize) == maxSize

\* the cut of one iteration and the branch that made it
splitOf(remaining, maxSize) ==
  LET atNewline == lastIndexOf(remaining, "\n", maxSize)
      atSpace == lastIndexOf(remaining, " ", maxSize)
  IN IF ~NoGoodBoundary(atNewline, maxSize) THEN [index |-> atNewline, by |-> "newline"]
     ELSE IF ~NoGoodBoundary(atSpace, maxSize) THEN [index |-> atSpace, by |-> "space"]
     ELSE [index |-> hardSplit(maxSize), by |-> "hard"]

\* `[Part ${i + 1}/${chunks.length}] `
Marker(i, n) == <<"[", "P", "a", "r", "t", " ", ToString(i), "/", ToString(n), "]", " ">>

\* every chunk but the first gets its marker
withMarkersButFirst(chunks) ==
  IF Len(chunks) > 1
  THEN [i \in DOMAIN chunks |->
          IF i = 1 THEN chunks[i] ELSE Marker(i, Len(chunks)) \o chunks[i]]
  ELSE chunks

\* the markers number the chunks from 0
withMarkersFromZero(chunks) ==
  IF Len(chunks) > 1
  THEN [i \in DOMAIN chunks |-> Marker(i - 1, Len(chunks)) \o chunks[i]]
  ELSE chunks

\* chunks.length > 1 ? chunks.map(...) : chunks
withMarkers(chunks) ==
  IF Len(chunks) > 1
  THEN [i \in DOMAIN chunks |-> Marker(i, Len(chunks)) \o chunks[i]]
  ELSE chunks

\* no early return: every text goes through the loop
IsShortNever(content, maxSize) == FALSE

\* content.length <= maxSize
IsShort(content, maxSize) == Len(content) <= maxSize

\* the early return, or the entry into the loop with remaining = content
ChunkEnter ==
  /\ chunker.pc = "call"
  /\ chunker' =
       IF IsShort(chunker.content, chunker.maxSize)
       THEN [chunker EXCEPT !.pc = "done", !.out = <<chunker.content>>]
       ELSE [chunker EXCEPT !.pc = "loop", !.remaining = chunker.content]
  /\ UNCHANGED <<confVars, queueVars, hookVars, apiVars, ctxVars, raceVars, cfgVars,
                 fetchVars, files, diffed, run, lastCall>>

\* one iteration of while (remaining.length > 0); a call never makes more
\* chunks than its text has characters
ChunkLoop ==
  /\ chunker.pc = "loop"
  /\ Len(chunker.chunks) <= MaxText
  /\ LET remaining == chunker.remaining
         maxSize == chunker.maxSize
         split == splitOf(remaining, maxSize)
     IN chunker' =
          IF Len(remaining) = 0 THEN [chunker EXCEPT !.pc = "map"]
          ELSE IF Len(remaining) <= maxSize
          THEN [chunker EXCEPT !.pc = "map", !.chunks = Append(@, remaining)]
          ELSE [chunker EXCEPT !.chunks = Append(@, sliceTo(remaining, split.index)),
                               !.remaining = trimStart(sliceFrom(remaining, split.index)),
                               !.cuts = @ \cup {split.by}]
  /\ UNCHANGED <<confVars, queueVars, hookVars, apiVars, ctxVars, raceVars, cfgVars,
                 fetchVars, files, diffed, run, lastCall>>

\* the markers and the return
ChunkReturn ==
  /\ chunker.pc = "map"
  /\ chunker' = [chunker EXCEPT !.pc = "done", !.out = withMarkers(chunker.chunks)]
  /\ UNCHANGED <<confVars, queueVars, hookVars, apiVars, ctxVars, raceVars, cfgVars,
                 fetchVars, files, diffed, run, lastCall>>

\* chunkContent(content, maxSize) called with any text and any limit >= 1
InitChunk ==
  /\ AtRest /\ files = NoFiles /\ diffed = NoDiff /\ run = NoRun /\ lastCall = NoLast
  /\ \E content \in Texts, maxSize \in 1..MaxSize :
       chunker = [NoChunker EXCEPT !.pc = "call", !.content = content,
                                   !.maxSize = maxSize]

NextChunk == ChunkEnter \/ ChunkLoop \/ ChunkReturn

SpecChunk == InitChunk /\ [][NextChunk]_vars

\* the call is a sequential computation: it goes on while it can
SpecChunkFair == SpecChunk /\ WF_vars(NextChunk)

\* ------------------------------------------- identity cache, clearAllCaches
\* cache.workspace?.name === workspaceName ? cache.workspace.id : null
getCachedWorkspaceId(cache, workspaceName) ==
  IF cache.workspace.name = workspaceName THEN cache.workspace.id ELSE ""

\* cache.workspace = { name, id }
setCachedWorkspaceId(cache, name, id) ==
  [cache EXCEPT !.workspace = [name |-> name, id |-> id]]

\* cache.peers?.[peerName] || null
getCachedPeerId(cache, peerName) == cache.peers[peerName]

\* the peers object is made anew for the entry
setCachedPeerIdAlone(cache, peerName, peerId) ==
  [cache EXCEPT !.peers = [n \in PeerNames |-> IF n = peerName THEN peerId ELSE ""]]

\* cache.peers[peerName] = peerId
setCachedPeerId(cache, peerName, peerId) ==
  [cache EXCEPT !.peers[peerName] = peerId]

\* cache.sessions?.[cwd]?.id || null
getCachedSessionId(cache, cwd) == cache.sessions[cwd].id

\* cache.sessions[cwd] = { name, id, updatedAt: new Date().toISOString() }
setCachedSessionId(cache, cwd, name, id, t) ==
  [cache EXCEPT !.sessions[cwd] = [name |-> name, id |-> id, updatedAt |-> t]]

\* The files of ~/.honcho and config.json, as one record.
Disk ==
  [ids |-> files.ids, claudeInstanceId |-> claudeInstanceId, ctx |-> ctx,
   queue |-> queue, git |-> files.git, work |-> files.work, config |-> file]

\* claude-context.md is emptied with the rest
clearAllCachesAndWork(disk) ==
  [disk EXCEPT !.ids = EmptyIdCache, !.claudeInstanceId = NoInstance,
               !.ctx = EmptyContextCache, !.queue = <<>>,
               !.git = EmptyGitStateCache, !.work = <<>>]

\* Each of cache.json, context-cache.json, message-queue.jsonl and
\* git-state.json that exists is overwritten with "{}" (the queue with "");
\* one that does not exist reads as empty before and after.
clearAllCaches(disk) ==
  [disk EXCEPT !.ids = EmptyIdCache, !.claudeInstanceId = NoInstance,
               !.ctx = EmptyContextCache, !.queue = <<>>,
               !.git = EmptyGitStateCache]

IdSetWorkspace(name, id) ==
  /\ files' = [files EXCEPT !.ids = setCachedWorkspaceId(@, name, id)]
  /\ lastCall' = [op |-> "setCachedWorkspaceId", key |-> name, ret |-> ""]
  /\ UNCHANGED <<confVars, queueVars, hookVars, apiVars, ctxVars, raceVars, cfgVars,
                 fetchVars, diffed, chunker, run>>

IdSetPeer(peerName, peerId) ==
  /\ files' = [files EXCEPT !.ids = setCachedPeerId(@, peerName, peerId)]
  /\ lastCall' = [op |-> "setCachedPeerId", key |-> peerName, ret |-> ""]
  /\ UNCHANGED <<confVars, queueVars, hookVars, apiVars, ctxVars, raceVars, cfgVars,
                 fetchVars, diffed, chunker, run>>

IdSetSession(cwd, name, id) ==
  /\ files' = [files EXCEPT !.ids = setCachedSessionId(@, cwd, name, id, now)]
  /\ lastCall' = [op |-> "setCachedSessionId", key |-> cwd, ret |-> ""]
  /\ UNCHANGED <<confVars, queueVars, hookVars, apiVars, ctxVars, raceVars, cfgVars,
                 fetchVars, diffed, chunker, run>>

IdGetWorkspace(workspaceName) ==
  /\ lastCall' = [op |-> "getCachedWorkspaceId", key |-> workspaceName,
              ret |-> getCachedWorkspaceId(files.ids, workspaceName)]
  /\ UNCHANGED <<confVars, queueVars, hookVars, apiVars, ctxVars, raceVars, cfgVars,
                 fetchVars, files, diffed, chunker, run>>

IdGetPeer(peerName) ==
  /\ lastCall' = [op |-> "getCachedPeerId", key |-> peerName,
              ret |-> getCachedPeerId(files.ids, peerName)]
  /\ UNCHANGED <<confVars, queueVars, hookVars, apiVars, ctxVars, raceVars, cfgVars,
                 fetchVars, files, diffed, chunker, run>>

IdGetSession(cwd) ==
  /\ lastCall' = [op |-> "getCachedSessionId", key |-> cwd,
              ret |-> getCachedSessionId(files.ids, cwd)]
  /\ UNCHANGED <<confVars, queueVars, hookVars, apiVars, ctxVars, raceVars, cfgVars,
                 fetchVars, files, diffed, chunker, run>>

\* time passes between two calls
IdTick ==
  /\ now < MaxAge
  /\ now' = now + 1
  /\ lastCall' = NoLast
  /\ UNCHANGED <<confVars, queueVars, hookVars, apiVars, ctx, got, raceVars, cfgVars,
                 fetchVars, files, diffed, chunker, run>>

ClearAll ==
  /\ LET disk == clearAllCaches(Disk)
     IN /\ files' = [ids |-> disk.ids, git |-> disk.git, work |-> disk.work]
        /\ claudeInstanceId' = disk.claudeInstanceId
        /\ ctx' = disk.ctx
        /\ queue' = disk.queue
        /\ file' = disk.config
  /\ lastCall' = [op |-> "clearAllCaches", key |-> "", ret |-> ""]
  /\ UNCHANGED <<env, clock, hookVars, apiVars, now, got, raceVars, cfgVars,
                 fetchVars, diffed, chunker, run>>

\* ~/.honcho after some sessions: every file holds something
UsedFiles ==
  [ids |-> [workspace |-> [name |-> "cursor", id |-> "id1"],
            peers |-> [n \in PeerNames |-> IF n = "user" THEN "id1" ELSE ""],
            sessions |-> [c \in Cwds |->
                            IF c = "A" THEN [name |-> "s1", id |-> "id2", updatedAt |-> 0]
                            ELSE NoSession]],
   git |-> [c \in Cwds |-> IF c = "A" THEN GitState("main", "abc1234", FALSE)
                           ELSE NoGitState],
   work |-> <<"edited file", "ran tests">>]

\* the directory as created, or after some sessions
InitFiles ==
  /\ env = EnvOf("ke", "unset", "unset")
  /\ clock = 1
  /\ procs = [p \in Procs |-> Idle]
  /\ delivered = [t \in 0..(MaxProcs + 1) |-> 0]
  /\ otherSent = "none"
  /\ ops = <<>> /\ result = <<>>
  /\ now = 0 /\ got = NoReads
  /\ calls = <<>> /\ did = NoCall /\ saved = NoHosts /\ start = NoStart
  /\ diffed = NoDiff /\ chunker = NoChunker /\ run = NoRun /\ lastCall = NoLast
  /\ \/ /\ file = NoFile /\ queue = <<>> /\ claudeInstanceId = NoInstance
        /\ ctx = EmptyContextCache /\ files = NoFiles
     \/ /\ file = FileOf("kf", "unset", "unset") /\ queue = <<Leftover>>
        /\ claudeInstanceId \in InstanceIds
        /\ ctx = [EmptyContextCache EXCEPT
                    !.userContext = [present |-> TRUE, data |-> "d1", fetchedAt |-> 0],
                    !.messageCount = 1]
        /\ files = UsedFiles

NextFiles ==
  \/ \E name \in WorkspaceNames, id \in Ids : IdSetWorkspace(name, id)
  \/ \E peerName \in PeerNames, peerId \in Ids : IdSetPeer(peerName, peerId)
  \/ \E cwd \in Cwds, id \in Ids : IdSetSession(cwd, "s1", id)
  \/ \E workspaceName \in WorkspaceNames : IdGetWorkspace(workspaceName)
  \/ \E peerName \in PeerNames : IdGetPeer(peerName)
  \/ \E cwd \in Cwds : IdGetSession(cwd)
  \/ IdTick
  \/ ClearAll

SpecFiles == InitFiles /\ [][NextFiles]_vars

\* ------------------------------------- writes to ~/.honcho that can fail
\* writeFileSync and appendFileSync throw when the write fails (disk full,
\* file not writable).  The handlers, past their entry tests, and the calls
\* each makes that write a cache file, in the order it makes them;
\* handleBeforeSubmitPrompt makes the last two only when it fetches a fresh
\* context at the message threshold.
Handlers == {"beforeSubmitPrompt", "sessionStart", "sessionEnd"}
WriteSites(handler, fresh) ==
  CASE handler = "beforeSubmitPrompt" ->
         <<"queueMessage", "incrementMessageCount">>
         \o (IF fresh THEN <<"setCachedUserContext", "markKnowledgeGraphRefreshed">>
             ELSE <<>>)
    [] handler = "sessionStart" ->
         <<"setClaudeInstanceId", "resetMessageCount", "setCachedGitState",
           "setCachedUserContext", "setCachedClaudeContext">>
    [] handler = "sessionEnd" -> <<"markMessagesUploaded">>

\* Where a throw of the call goes: markMessagesUploaded catches its own
\* ("swallowed"); handleBeforeSubmitPrompt's fetch of a fresh context is in a
\* try whose catch prints and goes on to exit 0 ("skip"); handleSessionStart's
\* two context writes are in the try whose catch is process.exit(1) ("exit1");
\* the other calls are under no try: the exception leaves the handler and the
\* top-level await, and the process ends on it ("uncaught").
OnThrow(handler, site) ==
  CASE site = "markMessagesUploaded" -> "swallowed"
    [] handler = "beforeSubmitPrompt"
         /\ site \in {"setCachedUserContext", "markKnowledgeGraphRefreshed"} -> "skip"
    [] handler = "sessionStart"
         /\ site \in {"setCachedUserContext", "setCachedClaudeContext"} -> "exit1"
    [] OTHER -> "uncaught"

\* an invocation starts, in a directory
RunStart(handler, fresh, cwd) ==
  /\ run.pc = "idle"
  /\ fresh => handler = "beforeSubmitPrompt"
  /\ run' = [NoRun EXCEPT !.handler = handler, !.pc = "run", !.at = 1,
                          !.fresh = fresh, !.cwd = cwd]
  /\ UNCHANGED <<confVars, queueVars, hookVars, apiVars, ctxVars, raceVars, cfgVars,
                 fetchVars, files, diffed, chunker, lastCall>>

\* the next write of the handler succeeds or throws
RunWrite(ok) ==
  /\ run.pc = "run"
  /\ run.at <= Len(WriteSites(run.handler, run.fresh))
  /\ LET sites == WriteSites(run.handler, run.fresh)
         site == sites[run.at]
         wrote(name) == ok /\ site = name
         thrown == OnThrow(run.handler, site)
     IN /\ queue' = IF wrote("queueMessage")
                    THEN queueMessage(queue, "fix bug", "user", run.cwd, clock + 1,
                                      claudeInstanceId)
                    ELSE IF wrote("markMessagesUploaded")
                    THEN markMessagesUploaded(queue, run.cwd)
                    ELSE queue
        /\ clock' = IF wrote("queueMessage") THEN clock + 1 ELSE clock
        /\ claudeInstanceId' = IF wrote("setClaudeInstanceId") THEN "c1"
                               ELSE claudeInstanceId
        /\ ctx' = IF wrote("incrementMessageCount") THEN incrementMessageCount(ctx)
                  ELSE IF wrote("resetMessageCount") THEN resetMessageCount(ctx)
                  ELSE IF wrote("markKnowledgeGraphRefreshed")
                  THEN markKnowledgeGraphRefreshed(ctx)
                  ELSE IF wrote("setCachedUserContext")
                  THEN setCachedUserContext(ctx, "d1", now)
                  ELSE IF wrote("setCachedClaudeContext")
                  THEN setCachedClaudeContext(ctx, "d1", now)
                  ELSE ctx
        /\ files' = IF wrote("setCachedGitState")
                    THEN [files EXCEPT !.git = setCachedGitState(@, run.cwd,
                                                 GitState("main", "abc1234", FALSE))]
                    ELSE files
        /\ run' = IF ok THEN [run EXCEPT !.at = @ + 1]
                  ELSE CASE thrown = "swallowed" ->
                              [run EXCEPT !.at = @ + 1, !.failed = site]
                         [] thrown = "skip" ->
                              [run EXCEPT !.at = Len(sites) + 1, !.failed = site]
                         [] thrown = "exit1" ->
                              [run EXCEPT !.pc = "done", !.failed = site, !.exit = 1]
                         [] thrown = "uncaught" ->
                              [run EXCEPT !.pc = "done", !.failed = site,
                                          !.uncaught = TRUE, !.exit = 1]
  /\ UNCHANGED <<confVars, hookVars, apiVars, now, got, raceVars, cfgVars, fetchVars,
                 diffed, chunker, lastCall>>

\* the handler reaches its process.exit(0)
RunExit ==
  /\ run.pc = "run"
  /\ run.at > Len(WriteSites(run.handler, run.fresh))
  /\ run' = [run EXCEPT !.pc = "done", !.exit = 0]
  /\ UNCHANGED <<confVars, queueVars, hookVars, apiVars, ctxVars, raceVars, cfgVars,
                 fetchVars, files, diffed, chunker, lastCall>>

InitWrite ==
  /\ env = EnvOf("ke", "unset", "unset") /\ file = NoFile
  /\ queue \in StartLogs /\ clock = Len(queue) /\ claudeInstanceId = NoInstance
  /\ procs = [p \in Procs |-> Idle]
  /\ delivered = [t \in 0..(MaxProcs + 1) |-> 0]
  /\ otherSent = "none"
  /\ ops = <<>> /\ result = <<>>
  /\ ctx \in StartCaches /\ now = 1 /\ got = NoReads
  /\ calls = <<>> /\ did = NoCall /\ saved = NoHosts /\ start = NoStart
  /\ LibIdle

NextWrite ==
  \/ \E handler \in Handlers, fresh \in BOOLEAN, cwd \in Cwds : RunStart(handler, fresh, cwd)
  \/ \E ok \in BOOLEAN : RunWrite(ok)
  \/ RunExit

SpecWrite == InitWrite /\ [][NextWrite]_vars

\* ------------------------------------ the context phase of a single prompt
\* the test of the cached branch of handleBeforeSubmitPrompt with the message
\* threshold left out
useCachedIgnoringThreshold(cachedContext, cacheIsStale, forceRefresh) ==
  cachedContext.present /\ ~cacheIsStale

\* if (cachedContext && !cacheIsStale && !forceRefresh)
useCached(cachedContext, cacheIsStale, forceRefresh) ==
  cachedContext.present /\ ~cacheIsStale /\ ~forceRefresh

\* handleBeforeSubmitPrompt from incrementMessageCount to process.exit(0), in a
\* process that runs alone: got keeps what the three reads returned, lastCall
\* how the prompt was answered ("trivial", "cached", or what session.context()
\* gave to the one fetchFreshContext call)
PromptContext(prompt, fetched) ==
  /\ OrZero(ctx.messageCount) < MaxCount
  /\ LET counted == incrementMessageCount(ctx)
         forceRefresh == shouldRefreshKnowledgeGraph(counted)
         cachedContext == getCachedUserContext(counted, now)
         cacheIsStale == isContextCacheStale(counted, now)
         skips == shouldSkipContextRetrieval(prompt)
         cached == useCached(cachedContext, cacheIsStale, forceRefresh)
         stored == IF fetched \in Datas
                   THEN setCachedUserContext(counted, fetched, now) ELSE counted
     IN /\ got' = IF skips THEN [NoReads EXCEPT !.called = TRUE]
                  ELSE [called |-> TRUE, forceRefresh |-> forceRefresh,
                        user |-> cachedContext, claude |-> Null,
                        stale |-> cacheIsStale, useCached |-> cached]
        /\ lastCall' = [op |-> "handleBeforeSubmitPrompt", key |-> prompt,
                        ret |-> IF skips THEN "trivial"
                                ELSE IF cached THEN "cached" ELSE fetched]
        /\ ctx' = IF skips \/ cached THEN counted
                  ELSE IF fetched # "throw" /\ forceRefresh
                       THEN markKnowledgeGraphRefreshed(stored) ELSE stored
  /\ UNCHANGED <<confVars, queueVars, hookVars, apiVars, now, raceVars, cfgVars,
                 fetchVars, files, diffed, chunker, run>>

InitPrompt == AtRest /\ LibIdle

NextPrompt ==
  \/ Tick
  \/ \E data \in Datas : CtxSetUser(data)
  \/ CtxMarkRefreshed
  \/ CtxReset
  \/ \E prompt \in Contents, fetched \in Fetched : PromptContext(prompt, fetched)

SpecPrompt == InitPrompt /\ [][NextPrompt]_vars

\* ------------------------------------------- increments after a refresh mark
\* markKnowledgeGraphRefreshed(); run.at counts the increments made since
RefreshMark ==
  /\ ctx' = markKnowledgeGraphRefreshed(ctx)
  /\ run' = [NoRun EXCEPT !.handler = "markKnowledgeGraphRefreshed", !.pc = "done"]
  /\ got' = NoReads
  /\ UNCHANGED <<confVars, queueVars, hookVars, apiVars, now, raceVars, cfgVars,
                 fetchVars, files, diffed, chunker, lastCall>>

\* incrementMessageCount()
RefreshIncrement ==
  /\ OrZero(ctx.messageCount) < MaxCount
  /\ ctx' = incrementMessageCount(ctx)
  /\ run' = IF run.handler = "none" THEN run ELSE [run EXCEPT !.at = @ + 1]
  /\ got' = NoReads
  /\ UNCHANGED <<confVars, queueVars, hookVars, apiVars, now, raceVars, cfgVars,
                 fetchVars, files, diffed, chunker, lastCall>>

\* resetMessageCount() at the start of a session: the mark is gone
RefreshReset ==
  /\ ctx' = resetMessageCount(ctx)
  /\ run' = NoRun
  /\ got' = NoReads
  /\ UNCHANGED <<confVars, queueVars, hookVars, apiVars, now, raceVars, cfgVars,
                 fetchVars, files, diffed, chunker, lastCall>>

\* context-cache.json as earlier sessions left it
ContextCaches ==
  {c \in [userContext : {NoContext, [present |-> TRUE, data |-> "d1", fetchedAt |-> 0]},
          claudeContext : {NoContext, [present |-> TRUE, data |-> "d2", fetchedAt |-> 0]},
          messageCount : {Undef} \cup 0..MaxCount,
          lastRefreshMessageCount : {Undef} \cup 0..MaxCount] :
     OrZero(c.lastRefreshMessageCount) <= OrZero(c.messageCount)}

InitRefresh ==
  /\ env = EnvOf("ke", "unset", "unset") /\ file = NoFile
  /\ queue = <<>> /\ clock = 0 /\ claudeInstanceId = NoInstance
  /\ procs = [p \in Procs |-> Idle]
  /\ delivered = [t \in 0..(MaxProcs + 1) |-> 0]
  /\ otherSent = "none"
  /\ ops = <<>> /\ result = <<>>
  /\ ctx \in ContextCaches /\ now = 0 /\ got = NoReads
  /\ OtherIdle

NextRefresh ==
  \/ Tick
  \/ RefreshMark
  \/ RefreshIncrement
  \/ RefreshReset

SpecRefresh == InitRefresh /\ [][NextRefresh]_vars

\* ------------------------------------------------ files that do not parse
\* In this specification files holds the text of cache.json, git-state.json
\* and context-cache.json as a reader finds it: whether JSON.parse accepts it
\* (json) and the structure it holds (value; for a text that does not parse,
\* what was being written).  The lines of the queue have their own json field.
Raw(value) == [json |-> TRUE, value |-> value]
DiskAsWritten ==
  [ids : {Raw(EmptyIdCache), Raw(setCachedWorkspaceId(EmptyIdCache, "cursor", "id1"))},
   git : {Raw(EmptyGitStateCache),
          Raw(setCachedGitState(EmptyGitStateCache, "A", GitState("main", "abc1234", FALSE)))},
   context : {Raw(EmptyContextCache), Raw(setCachedUserContext(EmptyContextCache, "d1", 0))}]
FileNames == {"ids", "git", "context"}

\* try { return JSON.parse(readFileSync(...)) } with the catch left out: the
\* caller gets what the text holds
loadGitStateCacheUnguarded(raw) == raw.value

\* try { return JSON.parse(readFileSync(...)) } catch { return {} }
loadGitStateCache(raw) == IF Parses(raw) THEN raw.value ELSE EmptyGitStateCache
loadIdCache(raw) == IF Parses(raw) THEN raw.value ELSE EmptyIdCache
loadContextCache(raw) == IF Parses(raw) THEN raw.value ELSE EmptyContextCache

\* a write that was cut short leaves a file that is not JSON
DiskCorrupt(name) ==
  /\ files[name].json
  /\ files' = [files EXCEPT ![name].json = FALSE]
  /\ lastCall' = NoLast
  /\ UNCHANGED <<confVars, queueVars, hookVars, apiVars, ctxVars, raceVars, cfgVars,
                 fetchVars, diffed, chunker, run>>

\* an append that was cut short leaves a last line that is not JSON
DiskCorruptLine(content, cwd) ==
  /\ Len(queue) <= MaxInitLog
  /\ queue' = Append(queue, [QueuedMessage(content, "user", cwd, Len(queue) + 1, NoInstance)
                               EXCEPT !.json = FALSE])
  /\ lastCall' = NoLast
  /\ UNCHANGED <<confVars, clock, claudeInstanceId, hookVars, apiVars, ctxVars, raceVars,
                 cfgVars, fetchVars, files, diffed, chunker, run>>

\* a call of one of the loaders, or of getQueuedMessages(forCwd)
DiskLoad(op) ==
  /\ lastCall' = [op |-> op, key |-> "",
                  ret |-> CASE op = "loadIdCache" -> loadIdCache(files.ids)
                            [] op = "loadGitStateCache" -> loadGitStateCache(files.git)
                            [] op = "loadContextCache" -> loadContextCache(files.context)]
  /\ UNCHANGED <<confVars, queueVars, hookVars, apiVars, ctxVars, raceVars, cfgVars,
                 fetchVars, files, diffed, chunker, run>>

DiskListPending(forCwd) ==
  /\ lastCall' = [op |-> "getQueuedMessages", key |-> forCwd,
                  ret |-> getQueuedMessages(queue, forCwd)]
  /\ UNCHANGED <<confVars, queueVars, hookVars, apiVars, ctxVars, raceVars, cfgVars,
                 fetchVars, files, diffed, chunker, run>>

Loaders == {"loadIdCache", "loadGitStateCache", "loadContextCache"}

InitLoad ==
  /\ env = EnvOf("ke", "unset", "unset") /\ file = NoFile
  /\ queue \in InitLogs /\ clock = Len(queue) /\ claudeInstanceId = NoInstance
  /\ procs = [p \in Procs |-> Idle]
  /\ delivered = [t \in 0..(MaxProcs + 1) |-> 0]
  /\ otherSent = "none"
  /\ ops = <<>> /\ result = <<>>
  /\ ctx = EmptyContextCache /\ now = 0 /\ got = NoReads
  /\ calls = <<>> /\ did = NoCall /\ saved = NoHosts /\ start = NoStart
  /\ files \in DiskAsWritten
  /\ diffed = NoDiff /\ chunker = NoChunker /\ run = NoRun /\ lastCall = NoLast

NextLoad ==
  \/ \E name \in FileNames : DiskCorrupt(name)
  \/ \E content \in Contents, cwd \in Cwds : DiskCorruptLine(content, cwd)
  \/ \E op \in Loaders : DiskLoad(op)
  \/ \E forCwd \in Cwds \cup {""} : DiskListPending(forCwd)

SpecLoad == InitLoad /\ [][NextLoad]_vars

\* ------------------------------------------------- the work log and its cap
\* claude-context.md below its "## Recent Activity" header: files.work, one
\* element for each activity line, oldest first.  lastCall keeps what
\* getLocalContextConfig() returns in these runs: the maxEntries of config.json.
WorkDescriptions == {"edited file", "ran tests", "fixed bug"}

\* activities.slice(-n): the last n elements; -0 is 0, so slice(-0) is the
\* whole array, as is slice(-n) for n >= activities.length
sliceLast(activities, n) ==
  LET from == IF n = 0 \/ n >= Len(activities) THEN 0 ELSE Len(activities) - n
  IN SubSeq(activities, from + 1, Len(activities))

\* appendClaudeWork from `const lines` to the save, for a maxEntries that is
\* not 0: the last maxEntries - 1 activities, then the new entry
appendClaudeWork(activities, maxEntries, entry) ==
  Append(sliceLast(activities, maxEntries - 1), entry)

WorkAppend(workDescription) ==
  /\ now < MaxTime
  /\ files' = [files EXCEPT !.work = appendClaudeWork(@, lastCall.ret,
                                       [timestamp |-> now, work |-> workDescription])]
  /\ now' = now + 1
  /\ UNCHANGED <<confVars, queueVars, hookVars, apiVars, ctx, got, raceVars, cfgVars,
                 fetchVars, diffed, chunker, run, lastCall>>

InitWork ==
  /\ AtRest /\ files = NoFiles /\ diffed = NoDiff /\ chunker = NoChunker /\ run = NoRun
  /\ \E maxEntries \in 1..MaxEntries :
       lastCall = [op |-> "getLocalContextConfig", key |-> "maxEntries", ret |-> maxEntries]

NextWork == \E workDescription \in WorkDescriptions : WorkAppend(workDescription)

SpecWork == InitWork /\ [][NextWork]_vars

\* ------------------------------------------- two conversations, one id slot
\* Each working directory has its own conversation, and every hook input of a
\* conversation carries its conversation_id.  calls is the list of the hooks
\* that have run.
ConversationOf(cwd) == IF cwd = "A" THEN "convA" ELSE "convB"

\* handleSessionStart: setClaudeInstanceId(hookInput.conversation_id)
InstanceSessionStart(cwd) ==
  /\ Len(calls) <= MaxCalls
  /\ claudeInstanceId' = ConversationOf(cwd)
  /\ calls' = Append(calls, [hook |-> "sessionStart", cwd |-> cwd])
  /\ UNCHANGED <<confVars, queue, clock, hookVars, apiVars, ctxVars, cfgVars,
                 fetchVars, libVars>>

\* handleBeforeSubmitPrompt of a conversation that has had its sessionStart:
\* queueMessage(prompt, config.peerName, cwd), no instanceId given
InstanceBeforeSubmit(cwd, prompt) ==
  /\ Len(calls) <= MaxCalls
  /\ \E i \in DOMAIN calls : calls[i] = [hook |-> "sessionStart", cwd |-> cwd]
  /\ queue' = queueMessage(queue, prompt, "user", cwd, clock + 1, claudeInstanceId)
  /\ clock' = clock + 1
  /\ calls' = Append(calls, [hook |-> "beforeSubmitPrompt", cwd |-> cwd])
  /\ UNCHANGED <<confVars, claudeInstanceId, hookVars, apiVars, ctxVars, cfgVars,
                 fetchVars, libVars>>

InitInstance == AtRest /\ LibIdle

NextInstance ==
  \/ \E cwd \in Cwds : InstanceSessionStart(cwd)
  \/ \E cwd \in Cwds, prompt \in Contents : InstanceBeforeSubmit(cwd, prompt)

SpecInstance == InitInstance /\ [][NextInstance]_vars

\* --------------------------------------- saveConfig of the two surfaces at once
\* saveConfig reads config.json, changes the object it read and writes it: two
\* steps of a process, and the other surface's process runs in between.  calls
\* is the list of the calls started, each with the config it was given and the
\* object it read.
\* setPluginEnabled(enabled) under the host, up to the read of saveConfig
SaveRead(host, e, enabled) ==
  LET cfg == loadConfig(file, e, host)
  IN /\ cfg.present
     /\ \A i \in DOMAIN calls : calls[i].host # host
     /\ calls' = Append(calls, [host |-> host, config |-> [cfg EXCEPT !.enabled = enabled],
                               existing |-> IF file.kind = "json" THEN file ELSE EmptyFile,
                               pc |-> "read"])
     /\ UNCHANGED <<confVars, queueVars, hookVars, apiVars, ctxVars, cfgVars, fetchVars,
                    libVars>>

\* the rest of saveConfig: the merge into the object read, and writeFileSync
SaveWrite(i) ==
  /\ i \in DOMAIN calls /\ calls[i].pc = "read"
  /\ file' = saveConfig(calls[i].existing, calls[i].config, calls[i].host)
  /\ calls' = [calls EXCEPT ![i].pc = "written"]
  /\ UNCHANGED <<env, queueVars, hookVars, apiVars, ctxVars, cfgVars, fetchVars, libVars>>

NextSaveRace ==
  \/ \E host \in Hosts, e \in CfgEnvs, enabled \in {"true", "false"} :
        SaveRead(host, e, enabled)
  \/ \E i \in 1..MaxCalls : SaveWrite(i)

SpecSaveRace == InitCfg /\ [][NextSaveRace]_vars

\* ------------------------------------------------------------ properties
InLog(q, msg) == \E j \in DOMAIN q : q[j] = msg
SavingOn == config.present /\ isPluginEnabled(file, env) /\ config.saveMessages # "false"

\* C1: in handleBeforeSubmitPrompt, with message saving enabled and a
\* non-empty prompt, the append to the queue log has completed before the
\* invocation starts its first remote call.
C1_EnqueueBeforeRemote ==
  \A p \in Procs :
    (procs[p].kind = "bsp" /\ procs[p].remote /\ config.saveMessages # "false")
      => (procs[p].queued /\ procs[p].ts > 0)

\* C1 witness: an upload is in flight for a prompt that was queued.
C1_Witness ==
  \E p \in Procs : /\ procs[p].kind = "bsp" /\ procs[p].up = "flight"
                   /\ procs[p].queued /\ SavingOn
                   /\ \E i \in DOMAIN queue : /\ queue[i].timestamp = procs[p].ts
                                              /\ queue[i].content = procs[p].prompt

\* C2 (as claimed): a record leaves the log only when an upload that
\* contained it has succeeded.
C2_RemovedOnlyAfterUpload ==
  [][\A i \in DOMAIN queue :
       ~InLog(queue', queue[i]) => delivered[queue[i].timestamp] > 0]_vars

\* C3 (as claimed): the rewrite of markMessagesUploaded(A) drops no record of
\* another directory, whatever ran between its read and its write.
C3_MarkKeepsOtherDirs ==
  [][\A p \in Procs :
       (procs[p].pc = "markwrite" /\ procs'[p].pc # "markwrite")
         => \A i \in DOMAIN queue :
              queue[i].cwd # procs[p].cwd => InLog(queue', queue[i])]_vars

\* C6 (as claimed): once the upload of a prompt has succeeded the prompt is no
\* longer pending, and no queued prompt is uploaded twice.
C6_UploadedOnce ==
  /\ \A p \in Procs :
       (procs[p].kind = "bsp" /\ procs[p].up = "ok")
         => \A i \in DOMAIN getQueuedMessages(queue, procs[p].cwd) :
              getQueuedMessages(queue, procs[p].cwd)[i].timestamp # procs[p].ts
  /\ \A t \in DOMAIN delivered : delivered[t] <= 1

\* C7: the step in which an upload of queued prompts fails leaves the log as
\* it is and does not lead into markMessagesUploaded, and no later step of
\* that invocation changes the log.
C7_FailedUploadKeepsQueue ==
  [][\A p \in Procs :
       /\ (procs[p].up # "fail" /\ procs'[p].up = "fail")
            => (queue' = queue /\ procs'[p].pc \notin {"markread", "markwrite"})
       /\ (procs[p].up = "fail" /\ procs'[p] # procs[p]) => queue' = queue]_vars

\* C7 witness: the upload of handleBeforeSubmitPrompt failed and so did the
\* addMessages of a handleSessionEnd that had listed the prompt; the handler
\* is in its catch block and the prompt is still in the log.
C7_Witness ==
  \E p, q \in Procs :
    /\ procs[p].kind = "bsp" /\ procs[p].up = "fail"
    /\ procs[q].kind = "se" /\ procs[q].up = "fail" /\ procs[q].pc = "catch"
    /\ \E i \in DOMAIN procs[q].listed : procs[q].listed[i].timestamp = procs[p].ts
    /\ \E i \in DOMAIN queue : queue[i].timestamp = procs[p].ts

\* C8 (as claimed): with HONCHO_SAVE_MESSAGES=false in the environment no hook
\* appends to the queue and no hook sends a message to the remote session.
C8_SaveMessagesOff ==
  [][env.saveMessages = "false"
       => /\ Len(queue') <= Len(queue)
          /\ delivered' = delivered
          /\ otherSent' = otherSent]_vars

\* The lines q[i] of q with keep[i] true, in order (written out line by line).
RECURSIVE Lines(_, _)
Lines(q, keep) ==
  IF q = <<>> THEN <<>>
  ELSE IF Head(keep) THEN <<Head(q)>> \o Lines(Tail(q), Tail(keep))
  ELSE Lines(Tail(q), Tail(keep))

LastOp == ops[Len(ops)]

\* C4: called one after the other from any log, markUploaded(A) leaves every
\* record of the other directories in place, unchanged and in order, and no
\* record of A (so listPending(A) is empty).
C4_MarkScoped ==
  (Len(ops) > 0 /\ LastOp.op = "mark" /\ LastOp.cwd # "")
    => LET pre == LastOp.pre
           notA == [i \in DOMAIN pre |-> pre[i].cwd # LastOp.cwd]
       IN /\ queue = Lines(pre, notA)
          /\ \A i \in DOMAIN queue : queue[i].cwd # LastOp.cwd
          /\ getQueuedMessages(queue, LastOp.cwd) = <<>>

\* C4 witness: enqueue for A, enqueue for B, markUploaded(A); B's record is there.
C4_Witness ==
  /\ Len(ops) = 3
  /\ ops[1].op = "enqueue" /\ ops[1].cwd = "A"
  /\ ops[2].op = "enqueue" /\ ops[2].cwd = "B"
  /\ ops[3].op = "mark" /\ ops[3].cwd = "A"
  /\ \E i \in DOMAIN ops[3].pre : ops[3].pre[i].cwd = "A"
  /\ \E i \in DOMAIN queue : queue[i].cwd = "B" /\ queue[i].content = ops[2].content

\* C5: listPending(d) returns the records with uploaded = false of directory d
\* (of every directory when d is omitted), in append order; and right after
\* enqueue(m) on a log with nothing pending for m's directory it returns the
\* one record m.
C5_ListPending ==
  (Len(ops) > 0 /\ LastOp.op = "list")
    => LET d == LastOp.cwd
           Pending(q) ==
             Lines(q, [i \in DOMAIN q |-> q[i].uploaded = FALSE /\ (d = "" \/ q[i].cwd = d)])
       IN /\ result = Pending(LastOp.pre)
          /\ (/\ Len(ops) > 1
              /\ ops[Len(ops) - 1].op = "enqueue"
              /\ ops[Len(ops) - 1].cwd = d
              /\ Pending(ops[Len(ops) - 1].pre) = <<>>)
               => /\ Len(result) = 1
                  /\ result[1].content = ops[Len(ops) - 1].content
                  /\ result[1].peerId = "user"
                  /\ result[1].cwd = d
                  /\ result[1].uploaded = FALSE

\* C5 witness: enqueue(m) for A then listPending(A), on a log that holds a
\* pending record of B.
C5_Witness ==
  /\ Len(ops) = 2
  /\ ops[1].op = "enqueue" /\ ops[1].cwd = "A"
  /\ ops[2].op = "list" /\ ops[2].cwd = "A"
  /\ \E i \in DOMAIN ops[1].pre : ops[1].pre[i].cwd = "B" /\ ~ops[1].pre[i].uploaded
  /\ Len(result) = 1

UserAge == now - ctx.userContext.fetchedAt
ClaudeAge == now - ctx.claudeContext.fetchedAt
SinceRefresh == OrZero(ctx.messageCount) - OrZero(ctx.lastRefreshMessageCount)

\* C9 (as claimed): get returns a cached payload only if both checks pass,
\* now - fetchedAt < ttl and counter - baselineAtLastRefresh < threshold.
C9_GetChecksBoth ==
  /\ (got.called /\ got.user.present) => (UserAge < TTL /\ SinceRefresh < Threshold)
  /\ (got.called /\ got.claude.present) => (ClaudeAge < TTL /\ SinceRefresh < Threshold)

\* C9 (amended): get returns the stored payload exactly when one is stored
\* and now - fetchedAt < ttl, whatever the activity counter and the baseline
\* are, and absent otherwise; the activity check is shouldRefreshKnowledgeGraph,
\* and handleBeforeSubmitPrompt uses the cached payload only if both checks pass.
C9_GetChecksTtl ==
  got.called =>
    /\ got.user = IF ctx.userContext.present /\ UserAge < TTL
                  THEN [present |-> TRUE, data |-> ctx.userContext.data] ELSE Null
    /\ got.claude = IF ctx.claudeContext.present /\ ClaudeAge < TTL
                    THEN [present |-> TRUE, data |-> ctx.claudeContext.data] ELSE Null
    /\ got.forceRefresh = (SinceRefresh >= Threshold)
    /\ got.useCached = (/\ ctx.userContext.present /\ UserAge < TTL
                        /\ SinceRefresh < Threshold)

\* C9 witness: get returned the payload although the activity check fails.
C9_Witness ==
  /\ got.called /\ got.user.present /\ got.user.data = "d2"
  /\ SinceRefresh >= Threshold /\ got.forceRefresh /\ ~got.useCached

\* C10: for an entry older than the TTL get returns absent whatever the
\* activity counter and the baseline are, and isContextCacheStale is true in
\* the same states; an age equal to the TTL already counts as stale.
C10_StaleEntryAbsent ==
  (got.called /\ ctx.userContext.present /\ UserAge >= TTL)
    => (~got.user.present /\ got.stale)

\* C10 witness: fetchedAt = now - (ttl + 1), read with the counter past the
\* baseline.
C10_Witness ==
  /\ got.called /\ ctx.userContext.present /\ UserAge = TTL + 1
  /\ ctx.messageCount = 1 /\ ctx.lastRefreshMessageCount = Undef
  /\ ~got.user.present /\ got.stale

\* C11: shouldRefreshKnowledgeGraph is true exactly when counter - baseline >=
\* threshold, a missing counter or baseline counting as 0, whatever the age of
\* the cached payload is.
C11_ForceRefreshIffThreshold ==
  got.called =>
    LET counter == IF ctx.messageCount = Undef THEN 0 ELSE ctx.messageCount
        baseline == IF ctx.lastRefreshMessageCount = Undef THEN 0
                    ELSE ctx.lastRefreshMessageCount
    IN got.forceRefresh <=> (counter - baseline >= Threshold)

\* C11 witness: the difference equals the threshold, the baseline is missing
\* and the cached entry is younger than the TTL; the test is true.
C11_Witness ==
  /\ got.called /\ got.forceRefresh
  /\ ctx.messageCount = Threshold /\ ctx.lastRefreshMessageCount = Undef
  /\ ctx.userContext.present /\ UserAge < TTL /\ got.user.present

\* the step is the save of call i
Saves(i) == i \in DOMAIN calls /\ calls[i].pc = "loaded" /\ calls'[i].pc = "saved"
\* what the step does to the stored counter is what the claim allows call i
CounterStep(i) ==
  /\ calls[i].op # "reset" => OrZero(ctx'.messageCount) >= OrZero(ctx.messageCount)
  /\ calls[i].op = "increment" =>
        /\ ctx'.messageCount = OrZero(ctx.messageCount) + 1
        /\ calls'[i].ret = ctx'.messageCount

\* C12 as stated: under any interleaving of the calls of concurrent
\* invocations the stored counter never decreases except by a reset, and every
\* increment raises it by exactly 1 and returns the new value.
C12_CounterMonotonic ==
  [][\A i \in 1..MaxCalls : Saves(i) => CounterStep(i)]_vars

\* C12 amended: the same holds of every call that saves while the file still
\* holds what the call loaded (no other invocation wrote in between).
C12_CounterMonotonicUnraced ==
  [][\A i \in 1..MaxCalls : Saves(i) /\ calls[i].cache = ctx => CounterStep(i)]_vars

\* C12 witness: an increment has saved and returned the counter it stored,
\* one more than it loaded, while another call that loaded the same copy is
\* still to save.
C12_Witness ==
  \E i, j \in DOMAIN calls :
    /\ calls[i].op = "increment" /\ calls[i].pc = "saved"
    /\ calls[i].ret = ctx.messageCount
    /\ calls[i].ret = OrZero(calls[i].cache.messageCount) + 1
    /\ calls[i].ret >= 2
    /\ calls[j].pc = "loaded" /\ calls[j].cache = calls[i].cache

\* C13: after every saveConfig, under whichever host and in whatever order,
\* the file holds for each host the workspace and aiPeer last saved under it;
\* the save wrote the block of its own host and changed no other host's block.
C13_SaveKeepsOtherHosts ==
  [][did'.op = "save" =>
       /\ file'.kind = "json"
       /\ file'.hosts[did'.host] = HostConfig(did'.config.workspace, did'.config.aiPeer)
       /\ \A h \in Hosts : saved'[h].present => file'.hosts[h] = saved'[h]
       /\ \A g \in Hosts \ {did'.host} :
            file.kind = "json" => file'.hosts[g] = file.hosts[g]]_vars

\* C13 witness: saveConfig has run under both hosts, last under "claude-code",
\* and the file holds the two blocks, with different values.
C13_Witness ==
  /\ did.op = "save" /\ did.host = "claude-code"
  /\ saved["cursor"].present /\ saved["claude-code"].present
  /\ file.hosts["cursor"] = saved["cursor"]
  /\ file.hosts["claude-code"] = saved["claude-code"]
  /\ saved["cursor"] # saved["claude-code"]

\* C14: a saveConfig under one host leaves the workspace and aiPeer that
\* loadConfig resolves for the other host as they were, whatever the file held
\* (legacy flat fields only, included) and whatever the other host's environment.
C14_SaveKeepsOtherIdentity ==
  [][did'.op = "save" =>
       \A g \in Hosts \ {did'.host}, e \in CfgEnvs :
         LET before == loadConfig(file, e, g)
             after == loadConfig(file', e, g)
         IN before.present /\ after.present =>
              /\ after.workspace = before.workspace
              /\ after.aiPeer = before.aiPeer]_vars

\* C15: loadConfig returns null exactly when neither the environment nor a
\* parseable file holds a credential; on a file that does not parse it
\* returns the environment-only configuration; a config it returns has a
\* non-empty apiKey.
C15_AbsentIffNoCredential ==
  did.op = "load" =>
    /\ ~did.config.present <=>
          (did.env.apiKey = "" /\ ~(file.kind = "json" /\ file.apiKey # ""))
    /\ file.kind = "corrupt" => did.config = loadConfigFromEnv(did.env, did.host)
    /\ did.config.present => did.config.apiKey # ""

\* C15 witness: loadConfig on a file that does not parse, with a credential
\* in the environment, returned a config.
C15_Witness ==
  /\ did.op = "load" /\ file.kind = "corrupt"
  /\ did.env.apiKey # "" /\ did.config.present /\ did.config.apiKey = did.env.apiKey

\* the legacy flat aiPeer field of the host, and the defaults the code has
LegacyPeer(raw, host) == IF host = "cursor" THEN raw.cursorPeer ELSE raw.claudePeer
LegacyPeerDefault(host) == IF host = "cursor" THEN "cursor" ELSE "clawd"

IsSanitized(out, str) ==
  /\ Len(out) = Len(str)
  /\ \A i \in DOMAIN str :
       /\ out[i] \in SessionNameChars
       /\ toLowerCase(str[i]) \in SessionNameChars => out[i] = toLowerCase(str[i])
       /\ toLowerCase(str[i]) \notin SessionNameChars => out[i] = "-"

\* C17: getSessionName(cwd) is the override the configuration holds for cwd
\* when there is one, and otherwise sanitize(user identity), "-",
\* sanitize(last segment of cwd); user "Jane Doe" in /home/me/My Project!
\* gives jane-doe-my-project-.
C17_SessionNameDerived ==
  did.op = "name" =>
    LET override == IF did.config.present THEN did.config.sessions[did.cwd] ELSE <<>>
        user == Chars(IF did.config.present THEN did.config.peerName ELSE "user")
        last == Chars(did.cwd[Len(did.cwd)])
    IN /\ override # <<>> => did.name = override
       /\ override = <<>> =>
            /\ Len(did.name) = Len(user) + 1 + Len(last)
            /\ IsSanitized(SubSeq(did.name, 1, Len(user)), user)
            /\ did.name[Len(user) + 1] = "-"
            /\ IsSanitized(SubSeq(did.name, Len(user) + 2, Len(did.name)), last)
       /\ (override = <<>> /\ did.config.present /\ did.config.peerName = "Jane Doe"
            /\ did.cwd = <<"home", "me", "My Project!">>) =>
            did.name = <<"j", "a", "n", "e", "-", "d", "o", "e", "-",
                         "m", "y", "-", "p", "r", "o", "j", "e", "c", "t", "-">>
       /\ did.name = getSessionName(file, did.env, did.host, did.cwd)

\* C17 witness: the name derived for user "Jane Doe" in /home/me/My Project!,
\* no override being stored for the directory.
C17_Witness ==
  /\ did.op = "name" /\ did.config.present /\ did.config.peerName = "Jane Doe"
  /\ did.cwd = <<"home", "me", "My Project!">>
  /\ did.config.sessions[did.cwd] = <<>>
  /\ did.name[1] = "j" /\ did.name[5] = "-" /\ did.name[20] = "-" /\ Len(did.name) = 20

\* C18: with no credential (loadConfig returns null) a hook invocation goes
\* from its start straight to exit code 0: the queue log is as it found it,
\* the remote has received nothing, no handler is past its entry.
C18_AbsentConfigShortCircuits ==
  ~config.present =>
    /\ \A p \in Procs : procs[p] = Idle \/ procs[p] = Exited(0)
    /\ queue \in StartLogs
    /\ otherSent = "none"
    /\ \A t \in DOMAIN delivered : delivered[t] = 0

\* C18 witness: a hook has run and exited with no credential available.
C18_Witness ==
  /\ ~config.present /\ env.apiKey = "" /\ file.kind = "none"
  /\ \E p \in Procs : procs[p] = Exited(0)

\* C19: whatever remote call fails, every hook invocation that has ended has
\* ended with exit code 0.
C19_ExitZero ==
  \A p \in Procs : procs[p].pc = "done" => procs[p].exit = 0

\* the result of the request is a fulfilled one with content to show
HasContent(f) ==
  start.results[f] = (IF f \in {"userContext", "cursorContext"} THEN "d1" ELSE "text")

\* C20: once the connection is made, whichever of the five requests are
\* rejected, handleSessionStart prints its output and exits 0; the output has
\* the section of exactly the requests that brought content; a context whose
\* request was rejected keeps its cached entry, and the other context's entry
\* is the one its own request brought.
C20_FetchesFailInIsolation ==
  (start.pc = "done" /\ start.results # NotSettled) =>
    /\ start.output /\ start.exit = 0
    /\ "header" \in start.sections
    /\ \A f \in Fetches : f \in start.sections <=> HasContent(f)
    /\ start.results.userContext \in {"rejected", "null"} =>
          ctx.userContext = start.before.userContext
    /\ start.results.cursorContext \in {"rejected", "null"} =>
          ctx.claudeContext = start.before.claudeContext
    /\ start.results.userContext \in {"bare", "d1"} =>
          ctx.userContext.present /\ ctx.userContext.data = start.results.userContext
    /\ start.results.cursorContext \in {"bare", "d1"} =>
          ctx.claudeContext.present /\ ctx.claudeContext.data = start.results.cursorContext

\* C20 witness: the user context request and a chat were rejected, the others
\* brought content; the output has their sections, the user context cached by
\* an earlier session is still there and the AI context is the new one.
C20_Witness ==
  /\ start.pc = "done" /\ start.output
  /\ start.results.userContext = "rejected" /\ start.results.userChat = "rejected"
  /\ start.results.cursorContext = "d1"
  /\ start.sections = {"header", "cursorContext", "summaries", "cursorChat"}
  /\ ctx.userContext.present /\ ctx.userContext.data = "d2"
  /\ ctx.claudeContext.data = "d1"

\* C21: detectGitChanges with no previous state returns exactly one change,
\* of type initial, whatever the branch, the commit and the dirtiness of the
\* current state.
C21_InitialAlone ==
  (diffed.called /\ ~diffed.previous.present) =>
    /\ Len(diffed.changes) = 1
    /\ diffed.changes[1].type = "initial"

\* C21 witness: a first capture of a dirty tree on a branch, nothing cached.
C21_Witness ==
  /\ diffed.called /\ ~diffed.previous.present
  /\ diffed.current.isDirty /\ diffed.current.branch = "dev"
  /\ Len(diffed.changes) = 1

\* the changes of one type in a list, in the order of the list
OfType(changes, type) == SelectSeq(changes, LAMBDA c : c.type = type)
TypeOrder(type) ==
  CASE type = "branch_switch" -> 1 [] type = "new_commits" -> 2
    [] type = "files_changed" -> 3 [] OTHER -> 0

\* C22: with a previous state, the changes are, in this order, a branch_switch
\* (from/to the two branches) iff the branches differ, a new_commits (from/to
\* the two hashes) iff the hashes differ, a files_changed iff the tree went
\* from clean to dirty; never an initial, and nothing else.
C22_DiffOfPresent ==
  (diffed.called /\ diffed.previous.present) =>
    LET c == diffed.changes
        prev == diffed.previous
        cur == diffed.current
    IN /\ \A i \in DOMAIN c : TypeOrder(c[i].type) > 0
       /\ \A i, j \in DOMAIN c : i < j => TypeOrder(c[i].type) < TypeOrder(c[j].type)
       /\ (\E i \in DOMAIN c : c[i].type = "branch_switch") <=> prev.branch # cur.branch
       /\ (\E i \in DOMAIN c : c[i].type = "new_commits") <=> prev.commit # cur.commit
       /\ (\E i \in DOMAIN c : c[i].type = "files_changed")
             <=> (~prev.isDirty /\ cur.isDirty)
       /\ \A i \in DOMAIN c :
            /\ c[i].type = "branch_switch" =>
                 c[i].from = prev.branch /\ c[i].to = cur.branch
            /\ c[i].type = "new_commits" =>
                 c[i].from = prev.commit /\ c[i].to = cur.commit

\* C22 witness: all three fire from one diff.
C22_Witness ==
  /\ diffed.called /\ diffed.previous.present
  /\ Len(diffed.changes) = 3
  /\ diffed.changes[3].type = "files_changed"

\* the chunk without its marker
Body(chunk) ==
  IF Len(chunk) >= 11 /\ SubSeq(chunk, 1, 6) = <<"[", "P", "a", "r", "t", " ">>
     /\ chunk[8] = "/" /\ chunk[10] = "]" /\ chunk[11] = " "
  THEN SubSeq(chunk, 12, Len(chunk)) ELSE chunk
HasMarker(chunk, i, n) ==
  Len(chunk) >= 11 /\ SubSeq(chunk, 1, 11) = Marker(i, n)
AllWhitespace(s) == \A i \in DOMAIN s : s[i] \in Whitespace

\* text is the bodies in order, with whitespace and nothing else left out
\* after each of them
RECURSIVE JoinsTo(_, _)
JoinsTo(bodies, text) ==
  IF bodies = <<>> THEN text = <<>>
  ELSE LET b == Head(bodies)
       IN /\ Len(b) <= Len(text)
          /\ SubSeq(text, 1, Len(b)) = b
          /\ \E k \in Len(b)..Len(text) :
               /\ AllWhitespace(SubSeq(text, Len(b) + 1, k))
               /\ JoinsTo(Tail(bodies), SubSeq(text, k + 1, Len(text)))

\* C24: a text no longer than maxSize is returned as the one element of the
\* result, unchanged: no marker, no trimming; so the empty text and a text of
\* exactly maxSize characters.
C24_ShortUnchanged ==
  (chunker.pc = "done" /\ Len(chunker.content) <= chunker.maxSize) =>
    chunker.out = <<chunker.content>>

\* C24 witness: a text of exactly maxSize characters with whitespace at both
\* ends came back.
C24_Witness ==
  /\ chunker.pc = "done" /\ Len(chunker.content) = chunker.maxSize
  /\ chunker.content[1] = " " /\ chunker.content[Len(chunker.content)] = "\n"
  /\ chunker.out = <<chunker.content>>

Bodies(out) == [i \in DOMAIN out |-> Body(out[i])]
Long == chunker.pc = "done" /\ Len(chunker.content) > chunker.maxSize

\* C23: for a text longer than maxSize, the chunks without their markers,
\* concatenated in order, are the text with whitespace left out after chunks
\* and nothing else changed: no other character is lost, repeated or moved.
C23_RoundTrip ==
  Long => JoinsTo(Bodies(chunker.out), chunker.content)

\* C23 witness: three chunks, made by a cut at a newline, one at a space and
\* the rest, whose bodies are shorter together than the text.
C23_Witness ==
  /\ Long /\ Len(chunker.out) = 3
  /\ chunker.cuts = {"newline", "space"}
  /\ Len(Body(chunker.out[1])) + Len(Body(chunker.out[2])) + Len(Body(chunker.out[3]))
       < Len(chunker.content)
  /\ JoinsTo(Bodies(chunker.out), chunker.content)

C26_Markers ==
  chunker.pc = "done" =>
    LET out == chunker.out
        chunks == chunker.chunks
    IN /\ Len(chunks) > 1 =>
            /\ Len(out) = Len(chunks)
            /\ \A i \in DOMAIN out : out[i] = Marker(i, Len(chunks)) \o chunks[i]
       /\ Len(chunks) = 1 => out = chunks /\ ~HasMarker(out[1], 1, 1)
       /\ Len(out) = 1 => Body(out[1]) = out[1]

\* C26 witness: four chunks, the third marked 3/4.
C26_Witness ==
  /\ chunker.pc = "done" /\ Len(chunker.chunks) = 4
  /\ SubSeq(chunker.out[3], 1, 11) = Marker(3, 4)

\* C27: a call with maxSize >= 1 returns: every iteration that cuts takes a
\* non-empty chunk and leaves a shorter remainder, whichever branch made the
\* cut, and the call reaches its return.
C27_Terminates ==
  /\ [][(chunker.pc = "loop" /\ chunker'.pc = "loop") =>
          /\ Len(chunker'.remaining) < Len(chunker.remaining)
          /\ chunker'.chunks[Len(chunker'.chunks)] # <<>>]_vars
  /\ <>(chunker.pc = "done")

\* C27 witness: a call that cut at a newline, at a space and by a hard split
\* has returned.
C27_Witness ==
  /\ chunker.pc = "done"
  /\ chunker.cuts = {"newline", "space", "hard"}

\* C28: clearAllCaches leaves the identity cache, the context cache, the
\* message queue and the git-state cache empty, and claude-context.md and
\* config.json as they were.
C28_ClearAllKeepsWorkLog ==
  [][lastCall'.op = "clearAllCaches" =>
       /\ files'.ids = EmptyIdCache /\ claudeInstanceId' = NoInstance
       /\ ctx' = EmptyContextCache
       /\ queue' = <<>>
       /\ files'.git = EmptyGitStateCache
       /\ files'.work = files.work
       /\ file' = file]_vars

\* C28 witness: after clearAllCaches on a directory in use, the caches are
\* empty and the work log and the configuration still hold what they held.
C28_Witness ==
  /\ lastCall.op = "clearAllCaches"
  /\ files.work = UsedFiles.work /\ file = FileOf("kf", "unset", "unset")
  /\ files.ids = EmptyIdCache /\ queue = <<>>

\* the id a lookup of the kind returns for the key
Lookup(ids, kind, key) ==
  CASE kind = "Workspace" -> getCachedWorkspaceId(ids, key)
    [] kind = "Peer" -> getCachedPeerId(ids, key)
    [] kind = "Session" -> getCachedSessionId(ids, key)
KeysOf(kind) ==
  CASE kind = "Workspace" -> WorkspaceNames [] kind = "Peer" -> PeerNames
    [] kind = "Session" -> Cwds
IdKinds == {"Workspace", "Peer", "Session"}
\* the step is a store of the kind for the key
StoresFor(kind, key) ==
  lastCall'.op = "setCached" \o kind \o "Id" /\ lastCall'.key = key

C30_WriteFailureSwallowed ==
  (run.pc = "done" /\ run.failed # "none") => (~run.uncaught /\ run.exit = 0)

\* C31 (as claimed): when handleSessionEnd for directory d has uploaded what it
\* listed and its markMessagesUploaded(d) writes the log, every message it
\* listed has been in a successful upload, nothing is pending for d any more,
\* and what is pending for every other directory is what was pending before
\* the write.
C31_SessionEndDrainsOwnDir ==
  [][\A p \in Procs :
       (procs[p].kind = "se" /\ procs[p].up = "ok"
          /\ procs[p].pc = "markwrite" /\ procs'[p].pc # "markwrite")
         => /\ \A i \in DOMAIN procs[p].listed :
                 delivered[procs[p].listed[i].timestamp] > 0
            /\ getQueuedMessages(queue', procs[p].cwd) = <<>>
            /\ \A c \in Cwds \ {procs[p].cwd} :
                 getQueuedMessages(queue', c) = getQueuedMessages(queue, c)]_vars

\* C32: a prompt that is not trivial is answered from the cache, with no fetch,
\* exactly when a payload is cached, its age is below the TTL, and the counter
\* as incremented for this prompt is less than the threshold above the
\* baseline; then the file only gains the increment.  In every other case there
\* is one fetch, the payload it returned is stored with the time of the fetch,
\* and the baseline moves to the counter exactly when the threshold forced the
\* refresh and the fetch did not throw.
C32_CachedIffFreshAndBelow ==
  [][(got'.called /\ lastCall'.op = "handleBeforeSubmitPrompt" /\ ctx' # ctx
        /\ ~shouldSkipContextRetrieval(lastCall'.key))
     => LET counter == OrZero(ctx.messageCount) + 1
            baseline == OrZero(ctx.lastRefreshMessageCount)
            fresh == ctx.userContext.present /\ now - ctx.userContext.fetchedAt < TTL
            below == counter - baseline < Threshold
            answer == lastCall'.ret
        IN /\ ctx'.messageCount = counter
           /\ (answer = "cached") <=> (fresh /\ below)
           /\ answer = "cached" => ctx' = [ctx EXCEPT !.messageCount = counter]
           /\ answer # "cached"
                => /\ answer \in Fetched
                   /\ ctx'.userContext =
                        IF answer \in Datas
                        THEN [present |-> TRUE, data |-> answer, fetchedAt |-> now]
                        ELSE ctx.userContext
                   /\ ctx'.lastRefreshMessageCount =
                        IF ~below /\ answer # "throw"
                        THEN counter ELSE ctx.lastRefreshMessageCount
                   /\ ctx'.claudeContext = ctx.claudeContext]_vars

\* a fresh payload below the threshold answered from the cache, and earlier a
\* forced refresh that fetched, stored and moved the baseline
C32_Witness ==
  /\ lastCall.op = "handleBeforeSubmitPrompt" /\ lastCall.ret = "cached"
  /\ got.called /\ got.useCached /\ got.user.present
  /\ OrZero(ctx.lastRefreshMessageCount) >= Threshold
  /\ ctx.messageCount > ctx.lastRefreshMessageCount

\* C33: markKnowledgeGraphRefreshed sets the baseline to the counter and leaves
\* the counter, both payloads and their timestamps as they were; right after it
\* shouldRefreshKnowledgeGraph is false for every threshold >= 1, and with only
\* increments since, it is true exactly when at least
\* threshold increments have been made.
C33_MarkThenThresholdIncrements ==
  /\ [][(run'.handler = "markKnowledgeGraphRefreshed" /\ run'.at = 0)
        => /\ ctx'.lastRefreshMessageCount = OrZero(ctx.messageCount)
           /\ ctx'.messageCount = ctx.messageCount
           /\ ctx'.userContext = ctx.userContext
           /\ ctx'.claudeContext = ctx.claudeContext
           /\ \A threshold \in 1..(MaxCount + 1) :
                ~(OrZero(ctx'.messageCount) - OrZero(ctx'.lastRefreshMessageCount)
                    >= threshold)
           /\ ~shouldRefreshKnowledgeGraph(ctx')]_vars
  /\ [](run.handler = "markKnowledgeGraphRefreshed"
          => /\ OrZero(ctx.messageCount) - OrZero(ctx.lastRefreshMessageCount) = run.at
             /\ shouldRefreshKnowledgeGraph(ctx) <=> (run.at >= Threshold))

\* a mark at a counter above 0, then exactly threshold increments
C33_Witness ==
  /\ run.handler = "markKnowledgeGraphRefreshed" /\ run.at = Threshold
  /\ ctx.lastRefreshMessageCount > 0
  /\ ctx.userContext.present
  /\ shouldRefreshKnowledgeGraph(ctx)

\* C34: in every iteration on a remainder longer than maxSize the cut is the
\* one of the reference policy: the last newline at an index <= maxSize if that
\* index is above 0 and at least a quarter of maxSize, else the last space at
\* an index <= maxSize under the same two conditions, else maxSize.  The chunk
\* is the remainder before the cut, and the next remainder is what follows the
\* cut without its leading whitespace.
C34_CutIsReferencePolicy ==
  [][(chunker.pc = "loop" /\ Len(chunker.remaining) > chunker.maxSize
        /\ chunker' # chunker)
     => LET r == chunker.remaining
            m == chunker.maxSize
            At(ch) == {i \in 0..m : i < Len(r) /\ r[i + 1] = ch}
            Last(ch) == IF At(ch) = {} THEN -1
                        ELSE CHOOSE i \in At(ch) : \A j \in At(ch) : j <= i
            Usable(i) == i > 0 /\ 4 * i >= m
            cut == IF Usable(Last("\n")) THEN Last("\n")
                   ELSE IF Usable(Last(" ")) THEN Last(" ") ELSE m
            rest == SubSeq(r, cut + 1, Len(r))
            next == chunker'.remaining
        IN /\ chunker'.chunks = Append(chunker.chunks, SubSeq(r, 1, cut))
           /\ \E k \in 0..Len(rest) :
                /\ next = SubSeq(rest, k + 1, Len(rest))
                /\ \A j \in 1..k : rest[j] \in Whitespace
                /\ next # <<>> => next[1] \notin Whitespace]_vars

\* one call cut at a newline, at a space and at maxSize
C34_Witness ==
  /\ chunker.pc = "done"
  /\ chunker.cuts = {"newline", "space", "hard"}

\* C35 (as claimed): for every text and every maxSize >= 1, every returned
\* chunk has a body, its marker left out, of at least one character and at
\* most maxSize characters.
C35_BodiesNonEmptyBounded ==
  chunker.pc = "done" =>
    \A i \in DOMAIN chunker.out :
      Len(Body(chunker.out[i])) \in 1..chunker.maxSize

\* C35 amended: every returned chunk has a body of at most maxSize characters;
\* the body has at least one character for every text but the empty one, which
\* comes back as one empty chunk.
C35_BodiesBoundedNonEmptyUnlessEmptyText ==
  chunker.pc = "done" =>
    /\ \A i \in DOMAIN chunker.out :
         /\ Len(Body(chunker.out[i])) <= chunker.maxSize
         /\ chunker.content # <<>> => Len(Body(chunker.out[i])) >= 1
    /\ chunker.content = <<>> => chunker.out = << <<>> >>

\* C35 witness: a text cut at a space well before maxSize and then at maxSize
\* gave a chunk shorter than maxSize and one of exactly maxSize characters
C35_Witness ==
  /\ chunker.pc = "done" /\ Len(chunker.out) >= 3
  /\ chunker.cuts = {"space", "hard"}
  /\ \E i \in DOMAIN chunker.out : Len(Body(chunker.out[i])) = chunker.maxSize
  /\ \E i \in DOMAIN chunker.out : Len(Body(chunker.out[i])) < chunker.maxSize - 1

\* C36: a file that does not parse is read as an empty one: loadIdCache,
\* loadContextCache and loadGitStateCache return the empty structure,
\* getQueuedMessages returns the empty list as soon as one line does not
\* parse, every such call returns, and no read changes a file.
C36_CorruptReadsAsEmpty ==
  /\ [](/\ (lastCall.op = "loadIdCache" /\ ~files.ids.json)
             => lastCall.ret = EmptyIdCache
        /\ (lastCall.op = "loadContextCache" /\ ~files.context.json)
             => lastCall.ret = EmptyContextCache
        /\ (lastCall.op = "loadGitStateCache" /\ ~files.git.json)
             => lastCall.ret = EmptyGitStateCache
        /\ (lastCall.op = "getQueuedMessages" /\ \E i \in DOMAIN queue : ~queue[i].json)
             => lastCall.ret = <<>>)
  /\ [][lastCall'.op # "none" => files' = files /\ queue' = queue]_vars
  /\ [](\A op \in Loaders : ENABLED DiskLoad(op))
  /\ [](\A forCwd \in Cwds \cup {""} : ENABLED DiskListPending(forCwd))

\* every file is broken (each held something when its write was cut short, the
\* queue a pending message before its broken line) and the last read returned
\* the empty list
C36_Witness ==
  /\ \A name \in FileNames : ~files[name].json
  /\ files.ids.value # EmptyIdCache /\ files.git.value # EmptyGitStateCache
  /\ files.context.value # EmptyContextCache
  /\ Len(queue) = 2 /\ queue[1].json /\ ~queue[1].uploaded /\ ~queue[2].json
  /\ lastCall.op = "getQueuedMessages" /\ lastCall.key = queue[1].cwd
  /\ lastCall.ret = <<>>

\* C37 (as claimed): with a configured maximum of N >= 1 entries the work log
\* never holds more than N activity entries; every append leaves the new entry
\* last and drops entries from the old end only.
C37_WorkLogCapped ==
  /\ [](Len(files.work) <= lastCall.ret)
  /\ [][files'.work # files.work
          => LET all == Append(files.work, [timestamp |-> now,
                                            work |-> files'.work[Len(files'.work)].work])
             IN \E k \in 0..Len(files.work) :
                  files'.work = SubSeq(all, k + 1, Len(all))]_vars

\* C38 (as claimed): every queued message carries the conversation id of the
\* session that enqueued it, whatever other session has started since.
C38_TaggedWithOwnInstance ==
  \A i \in DOMAIN queue : queue[i].instanceId = ConversationOf(queue[i].cwd)

\* C39 (as claimed): when two saveConfig calls under different hosts have both
\* read config.json before either wrote it, then once both have written the
\* file holds the block of each host as its call wrote it.
C39_BothBlocksKept ==
  (/\ Len(calls) = 2
   /\ calls[1].host # calls[2].host
   /\ calls[1].existing = calls[2].existing
   /\ \A i \in DOMAIN calls : calls[i].pc = "written")
  => \A i \in DOMAIN calls :
       file.hosts[calls[i].host]
         = HostConfig(calls[i].config.workspace, calls[i].config.aiPeer)

\* C40: whatever calls of set, incrementMessageCount, markKnowledgeGraphRefreshed
\* and resetMessageCount the invocations make, and however their loads and saves
\* interleave, the baseline context-cache.json holds is never above the counter
\* it holds (a field that is not there counts as 0, as the code reads it).
C40_BaselineAtMostCounter ==
  /\ 0 <= OrZero(ctx.lastRefreshMessageCount)
  /\ OrZero(ctx.lastRefreshMessageCount) <= OrZero(ctx.messageCount)
  /\ ctx.messageCount = Undef => ctx.lastRefreshMessageCount \in {Undef, 0}

\* C40 witness: the file holds a baseline of 1 that a mark wrote, while another
\* call that loaded the file before the mark has still to save its copy
C40_Witness ==
  /\ ctx.lastRefreshMessageCount = 1 /\ ctx.messageCount = 1
  /\ \E i, j \in DOMAIN calls :
       /\ calls[i].op = "markRefreshed" /\ calls[i].pc = "saved"
       /\ calls[j].pc = "loaded" /\ calls[j].cache # ctx
       /\ j < i

====
